---- MODULE Spec2Model ----
(***************************************************************************)
(* State-machine model of the layered-compositing renderer of the Launcher *)
(* app: ErrorRecovery, SpritePool, ImagePreloader, ConfigWatcher,          *)
(* LayerLoader with LayerValidator, and LayerRenderer.                     *)
(*                                                                         *)
(* JavaScript runs one task at a time.  An action of this model is one     *)
(* task together with the microtasks it queues: the synchronous part of a  *)
(* call up to its first real suspension (a timer, a network response), or  *)
(* the continuation that such an event resumes.                            *)
(*                                                                         *)
(* Each component has its own specification over the shared variables:     *)
(* SpecRecovery, SpecPool, SpecCache, SpecWatcher, SpecRenderer,           *)
(* SpecLoader.  SpecCompositor is LayerRenderer together with its          *)
(* ErrorRecovery, with a PIXI and a host callback that may throw.          *)
(***************************************************************************)
EXTENDS Integers, Sequences, FiniteSets, TLC

VARIABLES
  \* ---- ErrorRecovery (src/unnamed/part_001:230-515)
  state,        \* RecoveryState: isRecovering, retryCount, recoveryActions, degradationLevel
                \* (lastError is only copied into the error report and is left out)
  handlers,     \* the handleError() calls in progress, one record per slot
  consecFailed, \* history: completed retry-strategy calls that failed, in a row
  degradeCalls, \* history: degrade-strategy calls since construction or reset()
  \* ---- SpritePool (src/apps/Launcher/src/logic/SpritePool.ts)
  pool,         \* activeSprites, availableSprites, maxPoolSize and the sprite objects created
  held,         \* history, per layer id of PoolLayerIds: the sprite its first acquire returned and the
                \* acquire calls since, [sprite |-> 0, calls |-> 0] once released
  poolCalls,    \* history: getSprite, returnSprite and updateSprite calls made one by one
  \* ---- ImagePreloader (src/apps/Launcher/src/logic/ImagePreloader.ts)
  textureCache,    \* image id -> "absent", "texture" or "fallback"
  loadingPromises, \* image id -> the load in the in-flight map, 0 if none
  loads,           \* the loading promises created so far, with their listeners and timers
  preloads,        \* the preloadImages() calls, one record per slot
  errors,          \* history: <<slot, image id>> passed to the error callback by the call in the slot
  disposed,        \* the textures clearCache() has destroyed: image ids (the texture that was
                   \* cached for the id) and "fallback" (the fallback texture)
  \* ---- ConfigWatcher (src/apps/Launcher/src/logic/ConfigWatcher.ts)
  watcher,      \* isWatching, watchInterval (set or not), lastModified, callbacks (set or dropped)
  polls,        \* the checkForChanges() and forceReload() calls in progress, one record per slot
  now,          \* environment: the clock, Date.now()
  fileModified, \* environment: modification time of the config file on the server
  changeCalls,  \* history: invocations of onConfigChange
  errorCalls,   \* history: invocations of the watcher's onError
  \* ---- LayerRenderer (src/unnamed/part_001) and its MobileOptimizations
  renderer,     \* pixiApp (set or null), isDestroyed, currentLayers, frameSkipCounter,
                \* container (children of the PIXI container, in order)
  settings,     \* MobileOptimizations.settings: enableLowPowerMode, maxLayers, targetFPS,
                \* textureScale
  lastPass,     \* history: how the last renderLayers() call ended
  initCall,     \* the initialize() call: "none", "recovering", "resolved" or "rejected"
  callers,      \* handler slot -> the method awaiting the handleError call in the slot
  teardown,     \* history: the destroy() calls and the teardown steps they performed
  thrown,       \* history: render passes that threw
  handed,       \* history: handleError calls made by handleRenderError
  perfUpdates,  \* history: calls of the PerformanceMonitor callback
  \* ---- LayerLoader (src/unnamed/part_003)
  loader,       \* config (the stored document), processedLayers, callbacks (set or dropped)
  viewport,     \* LayerRenderer.viewportInfo: width, height and scale as fractions <<n, d>>
  deviceInfo,   \* MobileOptimizations.deviceInfo
  lastAdjust,   \* history: the last updateSettingsForPerformance call, its arguments, the
                \* settings before and after it and what it returned
  fetches,      \* the loadConfig() and hotReload(path) calls waiting for their fetch
  lastCall      \* history: the LayerLoader call that completed last, how it ended, the
                \* errorCallback invocations it made and what it passed to updateCallback

recoveryVars == <<state, handlers, consecFailed, degradeCalls>>

poolVars == <<pool, held, poolCalls>>

cacheVars == <<textureCache, loadingPromises, loads, preloads, errors, disposed>>

watcherVars == <<watcher, polls, now, fileModified, changeCalls, errorCalls>>

rendererVars ==
  <<renderer, settings, lastPass, initCall, callers, teardown, thrown, handed, perfUpdates,
    lastAdjust>>

deviceVars == <<viewport, deviceInfo>>

loaderVars == <<loader, fetches, lastCall>>

vars ==
  <<recoveryVars, poolVars, cacheVars, watcherVars, rendererVars, loaderVars, deviceVars>>

\* what a step of one component leaves alone
notRecovery == <<poolVars, cacheVars, watcherVars, rendererVars, loaderVars, deviceVars>>

notPool == <<recoveryVars, cacheVars, watcherVars, rendererVars, loaderVars, deviceVars>>

notCache == <<recoveryVars, poolVars, watcherVars, rendererVars, loaderVars, deviceVars>>

notWatcher == <<recoveryVars, poolVars, cacheVars, rendererVars, loaderVars, deviceVars>>

notLoader == <<recoveryVars, poolVars, cacheVars, watcherVars, rendererVars, deviceVars>>

\* a LayerRenderer step that is not destroy() touches the renderer, its pool and
\* its ErrorRecovery
notCompositor == <<held, poolCalls, cacheVars, watcherVars, loaderVars, deviceVars>>

\* what a step of the device profile or a viewport update leaves alone
notDevice ==
  <<recoveryVars, poolVars, cacheVars, watcherVars, loaderVars, renderer, lastPass,
    initCall, callers, teardown, thrown, handed, perfUpdates>>

----------------------------------------------------------------------------
(* Generic helpers *)

RECURSIVE Pow2(_)
Pow2(n) == IF n = 0 THEN 1 ELSE 2 * Pow2(n - 1)

Min(a, b) == IF a < b THEN a ELSE b

\* F applied to the value of v
With(v, F(_)) == CHOOSE r \in {F(x) : x \in {v}} : TRUE

Max(a, b) == IF a > b THEN a ELSE b

----------------------------------------------------------------------------
(* ErrorRecovery *)

\* Bounds of the model
MaxRetryCount == 4    \* no call starts once retryCount has reached this
MaxDegradation == 6   \* no degrade-strategy call starts at this degradationLevel
MaxOtherActions == 1  \* log entries other than ladder entries

\* RecoveryOptions as LayerRenderer constructs them
maxRetries == 3
retryDelay == 1000

HandlerSlots == {1, 2}

\* An error is modelled by the set of keywords its lower-cased message contains.
ErrorMessages ==
  { {"network"}, {"config"}, {"render"}, {"memory"}, {}, {"load", "config"}, {"render", "memory"},
    {"load", "memory"}, {"json", "heap"} }

degradations ==
  << "Reduced layer count by 50%",
     "Disabled antialiasing",
     "Reduced texture resolution",
     "Enabled low power mode",
     "Switched to minimal rendering" >>

InitialRecoveryState ==
  [ isRecovering |-> FALSE,
    retryCount |-> 0,
    recoveryActions |-> << >>,
    degradationLevel |-> 0 ]

IdleHandler ==
  [ pc |-> "idle", strategy |-> "none", hasRetryFn |-> FALSE, delay |-> 0,
    result |-> [recovered |-> FALSE, action |-> <<"none">>] ]

Includes(msg, ks) == msg \cap ks # {}

getRecoveryStrategy(msg) ==
  IF Includes(msg, {"fetch", "network", "load", "timeout"}) THEN "retry"
  ELSE IF Includes(msg, {"config", "validation", "json"}) THEN "fallback"
  ELSE IF Includes(msg, {"render", "pixi", "webgl", "canvas"}) THEN "degrade"
  ELSE IF Includes(msg, {"memory", "heap"}) THEN "degrade"
  ELSE "retry"

\* attemptRetry up to its first suspension: either a result, or the backoff delay.
attemptRetry_noCap(st, hasFn) ==
  IF st.retryCount > maxRetries
    THEN [sleep |-> FALSE, delay |-> 0,
          result |-> [recovered |-> FALSE, action |-> <<"Max retries exceeded", maxRetries>>]]
  ELSE IF ~hasFn
    THEN [sleep |-> FALSE, delay |-> 0,
          result |-> [recovered |-> FALSE, action |-> <<"No retry function provided">>]]
  ELSE [sleep |-> TRUE, delay |-> retryDelay * Pow2(st.retryCount),
        result |-> [recovered |-> FALSE, action |-> <<"none">>]]

attemptRetry_linearBackoff(st, hasFn) ==
  IF st.retryCount >= maxRetries
    THEN [sleep |-> FALSE, delay |-> 0,
          result |-> [recovered |-> FALSE, action |-> <<"Max retries exceeded", maxRetries>>]]
  ELSE IF ~hasFn
    THEN [sleep |-> FALSE, delay |-> 0,
          result |-> [recovered |-> FALSE, action |-> <<"No retry function provided">>]]
  ELSE [sleep |-> TRUE, delay |-> retryDelay * (st.retryCount + 1),
        result |-> [recovered |-> FALSE, action |-> <<"none">>]]

attemptRetry_noFunctionCheck(st, hasFn) ==
  IF st.retryCount >= maxRetries
    THEN [sleep |-> FALSE, delay |-> 0,
          result |-> [recovered |-> FALSE, action |-> <<"Max retries exceeded", maxRetries>>]]
  ELSE [sleep |-> TRUE, delay |-> retryDelay * Pow2(st.retryCount),
        result |-> [recovered |-> FALSE, action |-> <<"none">>]]

attemptRetry(st, hasFn) ==
  IF st.retryCount >= maxRetries
    THEN [sleep |-> FALSE, delay |-> 0,
          result |-> [recovered |-> FALSE, action |-> <<"Max retries exceeded", maxRetries>>]]
  ELSE IF ~hasFn
    THEN [sleep |-> FALSE, delay |-> 0,
          result |-> [recovered |-> FALSE, action |-> <<"No retry function provided">>]]
  ELSE [sleep |-> TRUE, delay |-> retryDelay * Pow2(st.retryCount),
        result |-> [recovered |-> FALSE, action |-> <<"none">>]]

\* The result attemptRetry builds once the retry function has settled.
retryOutcome(st, ok) ==
  IF ok
    THEN [recovered |-> TRUE, action |-> <<"Retry successful after attempts", st.retryCount + 1>>]
    ELSE [recovered |-> FALSE, action |-> <<"Retry failed", st.retryCount + 1>>]

useFallbackConfig ==
  [recovered |-> TRUE, action |-> <<"Switched to fallback configuration">>]

\* degradePerformance: the new degradationLevel and the reported result.
degradePerformance_offByOne(st) ==
  LET level == st.degradationLevel + 1
      action == degradations[Min(level + 1, Len(degradations))]
  IN [ level |-> level,
       result |-> IF level <= Len(degradations)
                    THEN [recovered |-> TRUE, action |-> <<action>>]
                    ELSE [recovered |-> FALSE, action |-> <<"Maximum degradation reached">>] ]

degradePerformance(st) ==
  LET level == st.degradationLevel + 1
      \* degradations[Math.min(level - 1, length - 1)], 0-based
      action == degradations[Min(level - 1, Len(degradations) - 1) + 1]
  IN [ level |-> level,
       result |-> IF level <= Len(degradations)
                    THEN [recovered |-> TRUE, action |-> <<action>>]
                    ELSE [recovered |-> FALSE, action |-> <<"Maximum degradation reached">>] ]

\* Bounds on the run: the counters and the log of the program are unbounded.
InFlight(strategies) ==
  Cardinality({p \in HandlerSlots : handlers[p].pc # "idle" /\ handlers[p].strategy \in strategies})

OtherActions ==
  Cardinality({i \in 1..Len(state.recoveryActions) :
                 \A k \in 1..Len(degradations) : state.recoveryActions[i] # <<degradations[k]>>})

CanStart(strategy) ==
  /\ state.retryCount + InFlight({"retry", "fallback", "degrade"}) < MaxRetryCount
  /\ strategy = "degrade" => state.degradationLevel < MaxDegradation
  \* a second call starts while one is in progress only before any degradation
  /\ InFlight({"retry", "fallback", "degrade"}) > 0 => state.degradationLevel = 0
  /\ strategy # "degrade" => OtherActions + InFlight({"retry", "fallback"}) < MaxOtherActions

\* handleError, from its entry to the first suspension of executeRecoveryStrategy:
\* the state, the call (sleeping or with its result) and the degradePerformance calls
enterHandleError(st, msg, hasFn) ==
  LET strategy == getRecoveryStrategy(msg)
      st1 == [st EXCEPT !.isRecovering = TRUE]
      h1 == [IdleHandler EXCEPT !.strategy = strategy,
                                !.hasRetryFn = (hasFn /\ strategy = "retry")]
  IN CASE strategy = "retry" ->
            LET r == attemptRetry(st1, hasFn)
            IN [ state |-> st1,
                 handler |-> IF r.sleep
                               THEN [h1 EXCEPT !.pc = "sleep", !.delay = r.delay]
                               ELSE [h1 EXCEPT !.pc = "settled", !.result = r.result],
                 degraded |-> 0 ]
       [] strategy = "fallback" ->
            [ state |-> st1,
              handler |-> [h1 EXCEPT !.pc = "settled", !.result = useFallbackConfig],
              degraded |-> 0 ]
       [] strategy = "degrade" ->
            LET d == degradePerformance(st1)
            IN [ state |-> [st1 EXCEPT !.degradationLevel = d.level],
                 handler |-> [h1 EXCEPT !.pc = "settled", !.result = d.result],
                 degraded |-> 1 ]

handleError(p, msg, hasFn) ==
  /\ handlers[p].pc = "idle"
  /\ CanStart(getRecoveryStrategy(msg))
  /\ LET e == enterHandleError(state, msg, hasFn)
     IN /\ state' = e.state
        /\ handlers' = [handlers EXCEPT ![p] = e.handler]
        /\ degradeCalls' = degradeCalls + e.degraded
  /\ UNCHANGED consecFailed

\* The backoff timer fires: attemptRetry resumes and invokes the retry function.
sleepDone(p) ==
  /\ handlers[p].pc = "sleep"
  /\ handlers' = [handlers EXCEPT ![p].pc = "retrying"]
  /\ UNCHANGED <<state, consecFailed, degradeCalls>>

\* The retry function's promise settles: attemptRetry returns its result.
retryDone(p, ok) ==
  /\ handlers[p].pc = "retrying"
  /\ handlers' = [handlers EXCEPT ![p].pc = "settled", ![p].delay = 0,
                                  ![p].result = retryOutcome(state, ok)]
  /\ UNCHANGED <<state, consecFailed, degradeCalls>>

\* handleError after `await executeRecoveryStrategy`: the bookkeeping of the
\* result r and the finally block.
settle_noFinally(st, r) ==
  IF r.recovered
    THEN [st EXCEPT !.retryCount = 0,
                    !.recoveryActions = Append(@, r.action),
                    !.isRecovering = FALSE]
    ELSE [st EXCEPT !.retryCount = @ + 1]

settle(st, r) ==
  IF r.recovered
    THEN [st EXCEPT !.retryCount = 0,
                    !.recoveryActions = Append(@, r.action),
                    !.isRecovering = FALSE]
    ELSE [st EXCEPT !.retryCount = @ + 1,
                    !.isRecovering = FALSE]

handleErrorFinish(p) ==
  /\ handlers[p].pc = "settled"
  /\ LET r == handlers[p].result
     IN /\ state' = settle(state, r)
        /\ consecFailed' =
             IF handlers[p].strategy = "retry" /\ ~r.recovered
               THEN consecFailed + 1 ELSE 0
  /\ handlers' = [handlers EXCEPT ![p] = IdleHandler]
  /\ UNCHANGED degradeCalls

\* ErrorRecovery.reset(): calls in progress are not cancelled.
reset ==
  /\ state # InitialRecoveryState
  /\ state' = InitialRecoveryState
  /\ consecFailed' = 0
  /\ degradeCalls' = 0
  /\ UNCHANGED handlers

RecoveryInit ==
  /\ state = InitialRecoveryState
  /\ handlers = [p \in HandlerSlots |-> IdleHandler]
  /\ consecFailed = 0
  /\ degradeCalls = 0

RecoveryNext ==
  \/ \E p \in HandlerSlots, msg \in ErrorMessages, hasFn \in BOOLEAN :
        handleError(p, msg, hasFn) /\ UNCHANGED notRecovery
  \/ \E p \in HandlerSlots : sleepDone(p) /\ UNCHANGED notRecovery
  \/ \E p \in HandlerSlots, ok \in BOOLEAN : retryDone(p, ok) /\ UNCHANGED notRecovery
  \/ \E p \in HandlerSlots : handleErrorFinish(p) /\ UNCHANGED notRecovery
  \/ reset /\ UNCHANGED notRecovery


----------------------------------------------------------------------------
(* SpritePool *)

\* Bounds of the model
BulkLayers == 51     \* size of the large scene rendered by processBatch
MaxSprites == 54     \* sprite objects ever created
MaxPoolCalls == 3    \* getSprite, returnSprite and updateSprite calls made one by one

\* layer ids of the calls made one by one
PoolLayerIds == {1, 2}

BulkLayerIds == {100 + i : i \in 1..BulkLayers}

Textures == {"texA", "texB"}

EMPTY == "PIXI.Texture.EMPTY"

NoUserData == [layerId |-> 0, zIndex |-> 0, set |-> FALSE]

\* new PIXI.Sprite()
NewSprite == [texture |-> EMPTY, visible |-> TRUE, userData |-> NoUserData, destroyed |-> FALSE]

InitialPool ==
  [ activeSprites |-> << >>,      \* Map in insertion order: <<[id, sprite], ...>>
    availableSprites |-> << >>,
    maxPoolSize |-> 150,
    sprites |-> << >> ]           \* sprite objects created so far, by handle number

\* Map.has / Map.get / Map.delete / Map.set on the insertion-ordered list
ActiveIndex(P, layerId) ==
  IF \E i \in 1..Len(P.activeSprites) : P.activeSprites[i].id = layerId
    THEN CHOOSE i \in 1..Len(P.activeSprites) : P.activeSprites[i].id = layerId
    ELSE 0

ActiveIds(P) == {P.activeSprites[i].id : i \in 1..Len(P.activeSprites)}

ActiveSprite(P, layerId) == P.activeSprites[ActiveIndex(P, layerId)].sprite

RemoveAt(seq, i) == SubSeq(seq, 1, i - 1) \o SubSeq(seq, i + 1, Len(seq))

\* getSprite: the pool afterwards and the sprite returned
getSprite_alwaysNew(P, layerId, texture) ==
  LET s == Len(P.sprites) + 1
  IN [ pool |-> [P EXCEPT !.sprites = Append(@, [NewSprite EXCEPT !.texture = texture]),
                          !.activeSprites = Append(@, [id |-> layerId, sprite |-> s])],
       sprite |-> s ]

getSprite(P, layerId, texture) ==
  IF ActiveIndex(P, layerId) # 0
    THEN LET s == ActiveSprite(P, layerId)
         IN [ pool |-> [P EXCEPT !.sprites[s].texture = texture], sprite |-> s ]
    ELSE LET reuse == Len(P.availableSprites) > 0
             s == IF reuse THEN P.availableSprites[Len(P.availableSprites)]
                           ELSE Len(P.sprites) + 1
             objs == IF reuse THEN P.sprites ELSE Append(P.sprites, NewSprite)
         IN [ pool |-> [P EXCEPT
                !.availableSprites = IF reuse THEN SubSeq(@, 1, Len(@) - 1) ELSE @,
                !.sprites = [objs EXCEPT ![s].texture = texture, ![s].visible = TRUE],
                !.activeSprites = Append(@, [id |-> layerId, sprite |-> s])],
              sprite |-> s ]

returnSprite_noCapacityCheck(P, layerId) ==
  IF ActiveIndex(P, layerId) = 0 THEN P
  ELSE LET s == ActiveSprite(P, layerId)
       IN [P EXCEPT !.activeSprites = RemoveAt(@, ActiveIndex(P, layerId)),
                    !.sprites[s].visible = FALSE,
                    !.sprites[s].texture = EMPTY,
                    !.availableSprites = Append(@, s)]

returnSprite(P, layerId) ==
  IF ActiveIndex(P, layerId) = 0 THEN P
  ELSE LET s == ActiveSprite(P, layerId)
           keep == Len(P.availableSprites) < P.maxPoolSize
       IN [P EXCEPT !.activeSprites = RemoveAt(@, ActiveIndex(P, layerId)),
                    !.sprites[s].visible = FALSE,
                    !.sprites[s].texture = EMPTY,
                    !.sprites[s].destroyed = ~keep,
                    !.availableSprites = IF keep THEN Append(@, s) ELSE @]

\* layer: [id, z, isVisible, imageId]
updateSprite(P, layerId, layer) ==
  IF ActiveIndex(P, layerId) = 0 THEN P
  ELSE LET s == ActiveSprite(P, layerId)
       IN [P EXCEPT !.sprites[s].visible = layer.isVisible,
                    !.sprites[s].userData =
                       [layerId |-> layer.id, zIndex |-> layer.z, set |-> TRUE]]

\* cleanupUnusedSprites: returnSprite for every active id outside currentLayerIds,
\* in the order of Array.from(activeSprites.keys())
\* the list is gone through in halves, first half first
RECURSIVE ReturnAll(_, _, _)
ReturnAll(P, ids, currentLayerIds) ==
  IF ids = << >> \/ P.activeSprites = << >> THEN P
  ELSE IF Len(ids) = 1
    THEN IF Head(ids) \in currentLayerIds THEN P ELSE returnSprite(P, Head(ids))
  ELSE With(ReturnAll(P, SubSeq(ids, 1, Len(ids) \div 2), currentLayerIds),
            LAMBDA Q : ReturnAll(Q, SubSeq(ids, Len(ids) \div 2 + 1, Len(ids)),
                                 currentLayerIds))

cleanupUnusedSprites_keepNone(P, currentLayerIds) ==
  ReturnAll(P, [i \in 1..Len(P.activeSprites) |-> P.activeSprites[i].id], {})

cleanupUnusedSprites(P, currentLayerIds) ==
  ReturnAll(P, [i \in 1..Len(P.activeSprites) |-> P.activeSprites[i].id], currentLayerIds)

\* a.userData?.zIndex || 0
ZOf(P, s) == IF P.sprites[s].userData.set THEN P.sprites[s].userData.zIndex ELSE 0

\* Array.prototype.sort is stable: insertion sort on the insertion-ordered values
RECURSIVE InsertByZ(_, _, _)
InsertByZ(P, sorted, s) ==
  IF sorted = << >> THEN <<s>>
  ELSE IF ZOf(P, s) < ZOf(P, Head(sorted)) THEN <<s>> \o sorted
  ELSE <<Head(sorted)>> \o InsertByZ(P, Tail(sorted), s)

RECURSIVE SortByZ(_, _)
SortByZ(P, seq) ==
  IF seq = << >> THEN << >>
  ELSE InsertByZ(P, SortByZ(P, SubSeq(seq, 1, Len(seq) - 1)), seq[Len(seq)])

getActiveSprites(P) ==
  SortByZ(P, [i \in 1..Len(P.activeSprites) |-> P.activeSprites[i].sprite])

\* availableSprites.splice(25): the pool keeps the first 25, the rest is destroyed
Splice25(P) ==
  LET n == Len(P.availableSprites)
      gone == IF n > 25 THEN {P.availableSprites[i] : i \in 26..n} ELSE {}
  IN [P EXCEPT !.availableSprites = SubSeq(@, 1, Min(n, 25)),
               !.sprites = [s \in 1..Len(@) |->
                              IF s \in gone THEN [@[s] EXCEPT !.destroyed = TRUE] ELSE @[s]]]

optimizePoolSize_noSplice(P) ==
  LET active == Len(P.activeSprites)
      grown == IF 10 * active > 8 * P.maxPoolSize /\ P.maxPoolSize < 200
                 THEN [P EXCEPT !.maxPoolSize = @ + 25] ELSE P
  IN IF 10 * active < 4 * P.maxPoolSize /\ grown.maxPoolSize > 50
       THEN [grown EXCEPT !.maxPoolSize = @ - 25]
       ELSE grown

optimizePoolSize_noCeiling(P) ==
  LET active == Len(P.activeSprites)
      grown == IF 10 * active > 8 * P.maxPoolSize
                 THEN [P EXCEPT !.maxPoolSize = @ + 25] ELSE P
  IN IF 10 * active < 4 * P.maxPoolSize /\ grown.maxPoolSize > 50
       THEN [Splice25(grown) EXCEPT !.maxPoolSize = @ - 25]
       ELSE grown

optimizePoolSize(P) ==
  LET active == Len(P.activeSprites)
      \* usage = active / maxPoolSize, compared with 0.8 and 0.4
      grown == IF 10 * active > 8 * P.maxPoolSize /\ P.maxPoolSize < 200
                 THEN [P EXCEPT !.maxPoolSize = @ + 25] ELSE P
  IN IF 10 * active < 4 * P.maxPoolSize /\ grown.maxPoolSize > 50
       THEN [Splice25(grown) EXCEPT !.maxPoolSize = @ - 25]
       ELSE grown

\* processBatch of LayerRenderer for layers whose texture is loaded:
\* getSprite then updateSprite, layer by layer; the list is gone through in
\* halves, first half first
RECURSIVE processBatch(_, _, _)
processBatch(P, layers, texture) ==
  IF layers = << >> \/ P.maxPoolSize = 0 THEN P
  ELSE IF Len(layers) = 1
    THEN updateSprite(getSprite(P, Head(layers).id, texture).pool,
                      Head(layers).id, Head(layers))
  ELSE With(processBatch(P, SubSeq(layers, 1, Len(layers) \div 2), texture),
            LAMBDA Q : processBatch(Q, SubSeq(layers, Len(layers) \div 2 + 1, Len(layers)),
                                    texture))

BulkScene == [i \in 1..BulkLayers |-> [id |-> 100 + i, z |-> 1, isVisible |-> TRUE]]

Created(P, n) == Len(P.sprites) + n <= MaxSprites

\* ---- the pool's calls as actions
NotHeld == [sprite |-> 0, calls |-> 0]

Acquired(h, s) == IF h.calls = 0 THEN [sprite |-> s, calls |-> 1]
                                 ELSE [h EXCEPT !.calls = @ + 1]

PoolCall ==
  /\ poolCalls < MaxPoolCalls
  /\ poolCalls' = poolCalls + 1

PoolGetSprite(layerId, texture) ==
  /\ PoolCall
  /\ Created(pool, 1)
  /\ pool' = getSprite(pool, layerId, texture).pool
  /\ held' = [held EXCEPT ![layerId] = Acquired(@, getSprite(pool, layerId, texture).sprite)]

PoolReturnSprite(layerId) ==
  /\ PoolCall
  /\ pool' = returnSprite(pool, layerId)
  /\ held' = [held EXCEPT ![layerId] = NotHeld]

PoolUpdateSprite(layerId, z) ==
  /\ PoolCall
  /\ pool' = updateSprite(pool, layerId, [id |-> layerId, z |-> z, isVisible |-> TRUE])
  /\ UNCHANGED held

PoolCleanup(currentLayerIds) ==
  /\ UNCHANGED poolCalls
  /\ pool' = cleanupUnusedSprites(pool, currentLayerIds)
  /\ held' = [id \in DOMAIN held |-> IF id \in currentLayerIds THEN held[id] ELSE NotHeld]

PoolOptimize ==
  /\ UNCHANGED poolCalls
  /\ pool' = optimizePoolSize(pool)
  /\ UNCHANGED held

PoolProcessBulk ==
  /\ UNCHANGED poolCalls
  /\ Created(pool, BulkLayers)
  /\ pool' = processBatch(pool, BulkScene, "texA")
  /\ UNCHANGED held

PoolInit ==
  /\ pool = InitialPool
  /\ held = [id \in PoolLayerIds |-> NotHeld]
  /\ poolCalls = 0

PoolNext ==
  \/ \E id \in PoolLayerIds, t \in Textures : PoolGetSprite(id, t) /\ UNCHANGED notPool
  \/ \E id \in PoolLayerIds : PoolReturnSprite(id) /\ UNCHANGED notPool
  \/ \E id \in PoolLayerIds, z \in 1..2 : PoolUpdateSprite(id, z) /\ UNCHANGED notPool
  \/ \E keep \in SUBSET PoolLayerIds : PoolCleanup(keep) /\ UNCHANGED notPool
  \/ PoolOptimize /\ UNCHANGED notPool
  \/ PoolProcessBulk /\ UNCHANGED notPool

\* SpritePool.destroy
SpritePoolDestroy(P) ==
  LET gone == {P.activeSprites[i].sprite : i \in 1..Len(P.activeSprites)}
              \cup {P.availableSprites[i] : i \in 1..Len(P.availableSprites)}
  IN [P EXCEPT !.activeSprites = << >>,
               !.availableSprites = << >>,
               !.sprites = [n \in 1..Len(@) |->
                              IF n \in gone THEN [@[n] EXCEPT !.destroyed = TRUE] ELSE @[n]]]

\* ---- the pool with a scene large enough to fill it
\* Bounds of the model
LargeLayers == 161       \* size of the scene that uses more than 80 % of a pool of 200
MaxLargeSprites == 165   \* sprite objects ever created


LargeScene == [i \in 1..LargeLayers |-> [id |-> 200 + i, z |-> 1, isVisible |-> TRUE]]

\* processBatch of LayerRenderer on the large scene
PoolProcessLarge ==
  /\ \E P \in {processBatch(pool, LargeScene, "texA")} :
        /\ Len(P.sprites) <= MaxLargeSprites
        /\ pool' = P
  /\ UNCHANGED <<held, poolCalls>>

\* SpritePool.destroy
PoolDestroy_keepLists ==
  /\ pool.activeSprites # << >> \/ pool.availableSprites # << >>
  /\ pool' = [SpritePoolDestroy(pool) EXCEPT !.activeSprites = pool.activeSprites,
                                             !.availableSprites = pool.availableSprites]
  /\ held' = [id \in PoolLayerIds |-> NotHeld]
  /\ UNCHANGED poolCalls

PoolDestroy ==
  /\ pool.activeSprites # << >> \/ pool.availableSprites # << >>
  /\ pool' = SpritePoolDestroy(pool)
  /\ held' = [id \in PoolLayerIds |-> NotHeld]
  /\ UNCHANGED poolCalls

PoolTuningNext ==
  \/ \E id \in {1} : PoolGetSprite(id, "texA") /\ UNCHANGED notPool
  \/ \E id \in {1} : PoolReturnSprite(id) /\ UNCHANGED notPool
  \/ \E keep \in {{}, {1}} : PoolCleanup(keep) /\ UNCHANGED notPool
  \/ PoolOptimize /\ UNCHANGED notPool
  \/ PoolProcessLarge /\ UNCHANGED notPool
  \/ PoolDestroy /\ UNCHANGED notPool

----------------------------------------------------------------------------
(* ImagePreloader *)

\* Bound of the model
MaxLoads == 4        \* loading promises created in one run

ImageIds == {"a", "b"}

\* Object.keys(imageRegistry) order
IdOrder == <<"a", "b">>

PreloadSlots == {1, 2, 3}

\* the image registries passed to preloadImages
Registries == {{"a"}, {"a", "b"}}

NotAsked == [src |-> "none", load |-> 0, value |-> "absent"]

\* loadedImages: the counter of one preloadImages() call, as last reported
IdlePreload == [pc |-> "idle", asked |-> [id \in ImageIds |-> NotAsked], loadedImages |-> 0]

\* the state the calls of one preloadImages() share
CacheState == [textureCache |-> textureCache, loadingPromises |-> loadingPromises, loads |-> loads]

\* loadSingleImage up to its return: the state afterwards and what the caller awaits.
\* valid: texture.baseTexture.valid right after PIXI.Texture.from(url)
loadSingleImage_noInFlightCheck(C, imageId, valid) ==
  [ C |-> [C EXCEPT !.loads = Append(@, [id |-> imageId, status |-> "pending", timer |-> TRUE]),
                    !.loadingPromises[imageId] = Len(C.loads) + 1],
    asked |-> [src |-> "load", load |-> Len(C.loads) + 1, value |-> "absent"] ]

loadSingleImage_noTimeout(C, imageId, valid) ==
  IF C.textureCache[imageId] # "absent"
    THEN [C |-> C, asked |-> [src |-> "cache", load |-> 0, value |-> C.textureCache[imageId]]]
  ELSE IF C.loadingPromises[imageId] # 0
    THEN [C |-> C, asked |-> [src |-> "load", load |-> C.loadingPromises[imageId], value |-> "absent"]]
  ELSE LET n == Len(C.loads) + 1
           new == IF valid THEN [id |-> imageId, status |-> "loaded", timer |-> FALSE]
                           ELSE [id |-> imageId, status |-> "pending", timer |-> FALSE]
       IN [ C |-> [C EXCEPT !.loads = Append(@, new), !.loadingPromises[imageId] = n],
            asked |-> [src |-> "load", load |-> n, value |-> "absent"] ]

loadSingleImage(C, imageId, valid) ==
  IF C.textureCache[imageId] # "absent"
    THEN [C |-> C, asked |-> [src |-> "cache", load |-> 0, value |-> C.textureCache[imageId]]]
  ELSE IF C.loadingPromises[imageId] # 0
    THEN [C |-> C, asked |-> [src |-> "load", load |-> C.loadingPromises[imageId], value |-> "absent"]]
  ELSE LET n == Len(C.loads) + 1
           \* valid at once: onLoad() runs inside the executor, before loadingPromises.set
           new == IF valid THEN [id |-> imageId, status |-> "loaded", timer |-> FALSE]
                           ELSE [id |-> imageId, status |-> "pending", timer |-> TRUE]
       IN [ C |-> [C EXCEPT !.loads = Append(@, new), !.loadingPromises[imageId] = n],
            asked |-> [src |-> "load", load |-> n, value |-> "absent"] ]

\* imageIds.map(...) of preloadImages up to the first await of every mapper
RECURSIVE MapImages(_, _, _, _, _)
MapImages(C, asked, ids, registry, validNow) ==
  IF ids = << >> THEN [C |-> C, asked |-> asked]
  ELSE IF Head(ids) \notin registry THEN MapImages(C, asked, Tail(ids), registry, validNow)
  ELSE LET r == loadSingleImage(C, Head(ids), Head(ids) \in validNow)
       IN MapImages(r.C, [asked EXCEPT ![Head(ids)] = r.asked], Tail(ids), registry, validNow)

Registry(p) == {id \in ImageIds : preloads[p].asked[id].src # "none"}

Settled(p, id) ==
  IF preloads[p].asked[id].src = "cache" THEN TRUE
  ELSE loads[preloads[p].asked[id].load].status # "pending"

Failed(p, id) ==
  IF preloads[p].asked[id].src = "load"
    THEN loads[preloads[p].asked[id].load].status = "failed"
    ELSE FALSE

\* Promise.all(loadPromises) has resolved, the rest of preloadImages is a microtask
Ready(p) == preloads[p].pc = "waiting" /\ \A id \in Registry(p) : Settled(p, id)

NoMicrotask == \A p \in PreloadSlots : ~Ready(p)

\* what the mapper of preloadImages returns as texture for an image
mapperTexture_dropFailed(p, id) ==
  IF preloads[p].asked[id].src = "cache" THEN preloads[p].asked[id].value
  ELSE IF Failed(p, id) THEN "absent" ELSE "texture"

mapperTexture(p, id) ==
  IF preloads[p].asked[id].src = "cache" THEN preloads[p].asked[id].value
  ELSE IF Failed(p, id) THEN "fallback" ELSE "texture"

\* the catch block of the mappers that await load n, run when it rejects
reportErrors(n) ==
  errors \cup {<<p, loads[n].id>> : p \in {q \in PreloadSlots :
                  /\ preloads[q].pc = "waiting"
                  /\ preloads[q].asked[loads[n].id].src = "load"
                  /\ preloads[q].asked[loads[n].id].load = n}}

\* loadedImages++ and reportProgress in the mappers that await load n, run when
\* it settles
countLoaded(n) ==
  [p \in PreloadSlots |->
     IF /\ preloads[p].pc = "waiting"
        /\ preloads[p].asked[loads[n].id].src = "load"
        /\ preloads[p].asked[loads[n].id].load = n
       THEN [preloads[p] EXCEPT !.loadedImages = @ + 1]
       ELSE preloads[p]]

\* A settled promise with no timer left that neither the in-flight map nor a
\* waiting preloadImages() refers to is unreachable: its outcome is forgotten.
Collect(L, LP, PR) ==
  [n \in 1..Len(L) |->
     IF /\ L[n].status # "pending"
        /\ ~L[n].timer
        /\ LP[L[n].id] # n
        /\ \A p \in PreloadSlots : PR[p].asked[L[n].id].load # n
       THEN [L[n] EXCEPT !.status = "collected"]
       ELSE L[n]]

\* ---- actions
preloadImages(p, registry, validNow) ==
  /\ NoMicrotask
  /\ preloads[p].pc = "idle"
  /\ \A q \in PreloadSlots : q < p => preloads[q].pc = "waiting"
  /\ Len(loads) + Cardinality(registry) <= MaxLoads
  /\ LET r == MapImages(CacheState, IdlePreload.asked, IdOrder, registry, validNow)
     IN /\ textureCache' = r.C.textureCache
        /\ loadingPromises' = r.C.loadingPromises
        \* the mappers of cached and already valid images go on at once
        /\ preloads' = [preloads EXCEPT ![p] =
              [pc |-> "waiting", asked |-> r.asked,
               loadedImages |-> Cardinality({id \in registry :
                  \/ r.asked[id].src = "cache"
                  \/ r.C.loads[r.asked[id].load].status # "pending"})]]
        /\ loads' = Collect(r.C.loads, loadingPromises', preloads')
  /\ UNCHANGED <<errors, disposed>>

\* results.forEach(textureCache.set) and the return of preloadImages
preloadResolve(p) ==
  /\ Ready(p)
  /\ textureCache' = [id \in ImageIds |->
        IF id \in Registry(p) THEN mapperTexture(p, id) ELSE textureCache[id]]
  /\ preloads' = [preloads EXCEPT ![p] = IdlePreload]
  /\ errors' = {e \in errors : e[1] # p}
  /\ loads' = Collect(loads, loadingPromises, preloads')
  /\ UNCHANGED <<loadingPromises, disposed>>

\* baseTexture emits 'loaded': onLoad
onLoad(n) ==
  /\ NoMicrotask
  /\ loads[n].status = "pending"
  /\ loadingPromises' = [loadingPromises EXCEPT ![loads[n].id] = 0]
  /\ preloads' = countLoaded(n)
  /\ loads' = Collect([loads EXCEPT ![n].status = "loaded", ![n].timer = FALSE],
                      loadingPromises', preloads)
  /\ UNCHANGED <<textureCache, errors, disposed>>

\* baseTexture emits 'error': onError; the 10 s timer stays armed
onError(n) ==
  /\ NoMicrotask
  /\ loads[n].status = "pending"
  /\ loadingPromises' = [loadingPromises EXCEPT ![loads[n].id] = 0]
  /\ preloads' = countLoaded(n)
  /\ loads' = Collect([loads EXCEPT ![n].status = "failed"], loadingPromises', preloads)
  /\ errors' = reportErrors(n)
  /\ UNCHANGED <<textureCache, disposed>>

\* the 10 s timer fires while the texture is not valid: onError(new Error('Load timeout')).
\* Timers fire in the order they were set.
onTimeout(n) ==
  /\ NoMicrotask
  /\ loads[n].timer
  /\ \A m \in 1..(n - 1) : ~loads[m].timer
  /\ loadingPromises' = [loadingPromises EXCEPT ![loads[n].id] = 0]
  /\ loads' = Collect([loads EXCEPT ![n].status = "failed", ![n].timer = FALSE],
                      loadingPromises', preloads)
  /\ errors' = IF loads[n].status = "pending" THEN reportErrors(n) ELSE errors
  /\ preloads' = IF loads[n].status = "pending" THEN countLoaded(n) ELSE preloads
  /\ UNCHANGED <<textureCache, disposed>>

\* textureCache.forEach(texture => texture.destroy(true)): a failed image has
\* the fallback texture as its cache entry
destroyTextures(tc) ==
  {id \in ImageIds : tc[id] = "texture"}
  \cup (IF \E id \in ImageIds : tc[id] = "fallback" THEN {"fallback"} ELSE {})

\* ImagePreloader.getTexture
getTextureOf(tc, imageId) == IF tc[imageId] # "absent" THEN tc[imageId] ELSE "fallback"

clearCache_keepInFlight ==
  /\ NoMicrotask
  /\ \/ \E id \in ImageIds : textureCache[id] # "absent"
     \/ \E id \in ImageIds : loadingPromises[id] # 0
  /\ disposed' = disposed \cup destroyTextures(textureCache)
  /\ textureCache' = [id \in ImageIds |-> "absent"]
  /\ UNCHANGED <<loadingPromises, loads, preloads, errors>>

clearCache ==
  /\ NoMicrotask
  /\ \/ \E id \in ImageIds : textureCache[id] # "absent"
     \/ \E id \in ImageIds : loadingPromises[id] # 0
  /\ disposed' = disposed \cup destroyTextures(textureCache)
  /\ textureCache' = [id \in ImageIds |-> "absent"]
  /\ loadingPromises' = [id \in ImageIds |-> 0]
  /\ loads' = Collect(loads, loadingPromises', preloads)
  /\ UNCHANGED <<preloads, errors>>

CacheInit ==
  /\ textureCache = [id \in ImageIds |-> "absent"]
  /\ loadingPromises = [id \in ImageIds |-> 0]
  /\ loads = << >>
  /\ preloads = [p \in PreloadSlots |-> IdlePreload]
  /\ errors = {}
  /\ disposed = {}

CacheNext ==
  \/ \E p \in PreloadSlots, registry \in Registries, validNow \in SUBSET ImageIds :
        /\ validNow \subseteq registry
        /\ preloadImages(p, registry, validNow)
        /\ UNCHANGED notCache
  \/ \E p \in PreloadSlots : preloadResolve(p) /\ UNCHANGED notCache
  \/ \E n \in 1..Len(loads) : onLoad(n) /\ UNCHANGED notCache
  \/ \E n \in 1..Len(loads) : onError(n) /\ UNCHANGED notCache
  \/ \E n \in 1..Len(loads) : onTimeout(n) /\ UNCHANGED notCache
  \/ clearCache /\ UNCHANGED notCache

\* at most two preloadImages() calls at a time
CacheSettlesNext ==
  \/ \E p \in {1, 2}, registry \in Registries, validNow \in SUBSET ImageIds :
        /\ validNow \subseteq registry
        /\ preloadImages(p, registry, validNow)
        /\ UNCHANGED notCache
  \/ \E p \in PreloadSlots : preloadResolve(p) /\ UNCHANGED notCache
  \/ \E n \in 1..Len(loads) : onLoad(n) /\ UNCHANGED notCache
  \/ \E n \in 1..Len(loads) : onError(n) /\ UNCHANGED notCache
  \/ \E n \in 1..Len(loads) : onTimeout(n) /\ UNCHANGED notCache
  \/ clearCache /\ UNCHANGED notCache

----------------------------------------------------------------------------
(* ConfigWatcher *)

\* Bounds of the model
MaxTime == 3         \* the clock stops here
MaxChangeCalls == 2  \* no poll starts after this many onConfigChange invocations
MaxErrorCalls == 2   \* no poll starts after this many onError invocations

PollSlots == {1, 2}

\* afterErrors is history: the onError invocations made before the interval
\* tick that started the poll, 0 for a poll started otherwise
IdlePoll == [pc |-> "idle", sentAt |-> 0, observed |-> 0, baseline |-> 0, afterErrors |-> 0]

\* destroyed and resumed are history: destroy() was called, and a poll or a
\* document fetch that was in flight then has resumed since
InitialWatcher ==
  [ isWatching |-> FALSE, watchInterval |-> FALSE, lastModified |-> 0, callbacks |-> TRUE,
    destroyed |-> FALSE, resumed |-> FALSE ]

\* line 80: this.lastModified > 0 && currentModified > this.lastModified
shouldReload_notStrict(lastModified, currentModified) ==
  lastModified > 0 /\ currentModified >= lastModified

shouldReload(lastModified, currentModified) ==
  lastModified > 0 /\ currentModified > lastModified

FreeSlot(p) ==
  /\ polls[p].pc = "idle"
  /\ \A q \in PollSlots : q < p => polls[q].pc # "idle"

MayPoll == changeCalls < MaxChangeCalls /\ errorCalls < MaxErrorCalls

\* checkForChanges up to the HEAD request
checkForChanges(p, afterErrors) ==
  /\ FreeSlot(p)
  /\ MayPoll
  /\ polls' = [polls EXCEPT ![p] = [IdlePoll EXCEPT !.pc = "head", !.sentAt = fileModified,
                                                     !.afterErrors = afterErrors]]

stopped(w) == [w EXCEPT !.watchInterval = FALSE, !.isWatching = FALSE]

startWatching ==
  /\ \E p \in PollSlots : checkForChanges(p, 0)
  /\ watcher' = [watcher EXCEPT !.isWatching = TRUE, !.watchInterval = TRUE]
  /\ UNCHANGED <<now, fileModified, changeCalls, errorCalls>>

stopWatching ==
  /\ watcher.isWatching
  /\ watcher' = stopped(watcher)
  /\ UNCHANGED <<polls, now, fileModified, changeCalls, errorCalls>>

\* the setInterval callback
intervalTick ==
  /\ watcher.watchInterval
  /\ \E p \in PollSlots : checkForChanges(p, errorCalls)
  /\ UNCHANGED <<watcher, now, fileModified, changeCalls, errorCalls>>

\* the HEAD request fails or answers with a status that is not ok
headFailed_noCatch(p) ==
  /\ polls[p].pc = "head"
  /\ polls' = [polls EXCEPT ![p] = IdlePoll]
  /\ watcher' = stopped(watcher)
  /\ UNCHANGED <<now, fileModified, changeCalls, errorCalls>>

headFailed(p) ==
  /\ polls[p].pc = "head"
  /\ polls' = [polls EXCEPT ![p] = IdlePoll]
  /\ errorCalls' = IF watcher.callbacks THEN errorCalls + 1 ELSE errorCalls
  /\ watcher' = [watcher EXCEPT !.resumed = @ \/ watcher.destroyed]
  /\ UNCHANGED <<now, fileModified, changeCalls>>

\* the HEAD request answers: currentModified is the last-modified header, or
\* Date.now() when the header is missing
headDone(p, currentModified) ==
  /\ polls[p].pc = "head"
  /\ IF shouldReload(watcher.lastModified, currentModified)
       THEN /\ polls' = [polls EXCEPT ![p].pc = "doc",
                                      ![p].observed = currentModified,
                                      ![p].baseline = watcher.lastModified]
            /\ watcher' = [watcher EXCEPT !.resumed = @ \/ watcher.destroyed]
       ELSE /\ polls' = [polls EXCEPT ![p] = IdlePoll]
            /\ watcher' = [watcher EXCEPT !.lastModified = currentModified,
                                          !.resumed = @ \/ watcher.destroyed]
  /\ UNCHANGED <<now, fileModified, changeCalls, errorCalls>>

\* loadAndNotify after its fetch: ok is a document that was fetched and parsed
docDone(p, ok) ==
  /\ polls[p].pc \in {"doc", "force"}
  /\ changeCalls' = IF ok /\ watcher.callbacks THEN changeCalls + 1 ELSE changeCalls
  /\ errorCalls' = IF ~ok /\ watcher.callbacks THEN errorCalls + 1 ELSE errorCalls
  /\ watcher' = [watcher EXCEPT
                    !.lastModified = IF polls[p].pc = "doc" THEN polls[p].observed ELSE @,
                    !.resumed = @ \/ watcher.destroyed]
  /\ polls' = [polls EXCEPT ![p] = IdlePoll]
  /\ UNCHANGED <<now, fileModified>>

forceReload ==
  /\ MayPoll
  /\ \E p \in PollSlots :
        /\ FreeSlot(p)
        /\ polls' = [polls EXCEPT ![p] = [IdlePoll EXCEPT !.pc = "force"]]
  /\ UNCHANGED <<watcher, now, fileModified, changeCalls, errorCalls>>

updateConfigPath ==
  /\ IF watcher.isWatching
       THEN /\ \E p \in PollSlots : checkForChanges(p, 0)
            /\ watcher' = [watcher EXCEPT !.lastModified = 0]
       ELSE /\ watcher.lastModified # 0
            /\ watcher' = [watcher EXCEPT !.lastModified = 0]
            /\ UNCHANGED polls
  /\ UNCHANGED <<now, fileModified, changeCalls, errorCalls>>

WatcherDestroy_stopOnly ==
  /\ ~watcher.destroyed
  /\ watcher' = [stopped(watcher) EXCEPT !.destroyed = TRUE]
  /\ UNCHANGED <<polls, now, fileModified, changeCalls, errorCalls>>

WatcherDestroy ==
  /\ ~watcher.destroyed
  /\ watcher' = [stopped(watcher) EXCEPT !.callbacks = FALSE, !.destroyed = TRUE]
  /\ UNCHANGED <<polls, now, fileModified, changeCalls, errorCalls>>

\* environment: time passes; the config file is written
ClockTick ==
  /\ now < MaxTime
  /\ now' = now + 1
  /\ UNCHANGED <<watcher, polls, fileModified, changeCalls, errorCalls>>

FileWritten ==
  /\ fileModified < now
  /\ fileModified' = now
  /\ UNCHANGED <<watcher, polls, now, changeCalls, errorCalls>>

WatcherInit ==
  /\ watcher = InitialWatcher
  /\ polls = [p \in PollSlots |-> IdlePoll]
  /\ now = 1
  /\ fileModified = 1
  /\ changeCalls = 0
  /\ errorCalls = 0

WatcherNext ==
  \/ startWatching /\ UNCHANGED notWatcher
  \/ stopWatching /\ UNCHANGED notWatcher
  \/ intervalTick /\ UNCHANGED notWatcher
  \/ \E p \in PollSlots : headFailed(p) /\ UNCHANGED notWatcher
  \/ \E p \in PollSlots, m \in 1..MaxTime :
        /\ \/ m \in polls[p].sentAt..fileModified
           \/ m = now
        /\ headDone(p, m)
        /\ UNCHANGED notWatcher
  \/ \E p \in PollSlots, ok \in BOOLEAN : docDone(p, ok) /\ UNCHANGED notWatcher
  \/ forceReload /\ UNCHANGED notWatcher
  \/ updateConfigPath /\ UNCHANGED notWatcher
  \/ WatcherDestroy /\ UNCHANGED notWatcher
  \/ ClockTick /\ UNCHANGED notWatcher
  \/ FileWritten /\ UNCHANGED notWatcher

\* polling alone, of a server that always sends the last-modified header
WatcherPollingNext ==
  \/ startWatching /\ UNCHANGED notWatcher
  \/ stopWatching /\ UNCHANGED notWatcher
  \/ intervalTick /\ UNCHANGED notWatcher
  \/ \E p \in PollSlots : headFailed(p) /\ UNCHANGED notWatcher
  \/ \E p \in PollSlots, m \in 1..MaxTime :
        /\ m \in polls[p].sentAt..fileModified
        /\ headDone(p, m)
        /\ UNCHANGED notWatcher
  \/ \E p \in PollSlots, ok \in BOOLEAN : docDone(p, ok) /\ UNCHANGED notWatcher
  \/ ClockTick /\ UNCHANGED notWatcher
  \/ FileWritten /\ UNCHANGED notWatcher

----------------------------------------------------------------------------
(* LayerRenderer *)

\* Bounds of the model
MaxZ == 3                 \* z values of the layers are 1..MaxZ
MaxFrameSkipCounter == 3  \* no render pass is asked for in low-power mode beyond this count
MaxThrown == 2            \* render passes that throw
MaxPerformanceUpdates == 1 \* calls of the PerformanceMonitor callback
MaxDestroyCalls == 2      \* destroy() calls

ZValues == 1..MaxZ

Layer(id, z, vis) == [id |-> id, z |-> z, isVisible |-> vis]

\* the lists passed to updateLayers: layer 1 with any z and layer 2 with z = 2,
\* each visible or not, alone or together in either order, and the three
\* layers 1, 2, 3 with z = [3,1,2] and with z = [1,2,3]
Scenes ==
  {<< >>}
  \cup {<<Layer(1, z, v)>> : z \in ZValues, v \in BOOLEAN}
  \cup {<<Layer(1, z, v[1]), Layer(2, 2, v[2])>> : z \in ZValues, v \in BOOLEAN \X BOOLEAN}
  \cup {<<Layer(2, 2, v[2]), Layer(1, z, v[1])>> : z \in ZValues, v \in BOOLEAN \X BOOLEAN}
  \cup {<<Layer(1, 3, TRUE), Layer(2, 1, TRUE), Layer(3, 2, TRUE)>>,
        <<Layer(1, 1, TRUE), Layer(2, 2, TRUE), Layer(3, 3, TRUE)>>}

InitialRenderer ==
  [ pixiApp |-> FALSE, isDestroyed |-> FALSE, currentLayers |-> << >>,
    frameSkipCounter |-> 0, container |-> << >> ]

RECURSIVE GCD(_, _)
GCD(a, b) == IF b = 0 THEN a ELSE GCD(b, a % b)

\* the number n/d as a fraction in lowest terms
Frac(n, d) == <<n \div GCD(n, d), d \div GCD(n, d)>>

\* fraction q is less than the integer k
Less(q, k) == q[1] < k * q[2]

BASE_WIDTH == 1920
BASE_HEIGHT == 1080

\* PositionCalculator.getViewportInfo that fits every container to its height
getViewportInfo_fitHeight(containerWidth, containerHeight) ==
  [ scale |-> Frac(containerHeight, BASE_HEIGHT),
    height |-> Frac(containerHeight, 1),
    width |-> Frac(BASE_WIDTH * containerHeight, BASE_HEIGHT) ]

\* PositionCalculator.getViewportInfo; containerAspect > baseAspect is compared
\* by cross-multiplication
getViewportInfo(containerWidth, containerHeight) ==
  IF containerWidth * BASE_HEIGHT > BASE_WIDTH * containerHeight
    THEN [ scale |-> Frac(containerHeight, BASE_HEIGHT),
           height |-> Frac(containerHeight, 1),
           width |-> Frac(BASE_WIDTH * containerHeight, BASE_HEIGHT) ]
    ELSE [ scale |-> Frac(containerWidth, BASE_WIDTH),
           width |-> Frac(containerWidth, 1),
           height |-> Frac(BASE_HEIGHT * containerWidth, BASE_WIDTH) ]

\* the initial value of LayerRenderer.viewportInfo
InitialViewport ==
  [width |-> <<BASE_WIDTH, 1>>, height |-> <<BASE_HEIGHT, 1>>, scale |-> <<1, 1>>]

\* the containers the host reports: 16:9, 4:3, a phone in portrait and a wide
\* strip whose fitted width is 768
ViewportSizes == {<<1920, 1080>>, <<800, 600>>, <<375, 667>>, <<1536, 432>>}

\* navigator.hardwareConcurrency and navigator.deviceMemory (GB) of the host,
\* 0 where the browser does not have the property
Hosts ==
  { [hardwareConcurrency |-> 8, deviceMemory |-> 8],
    [hardwareConcurrency |-> 8, deviceMemory |-> 2],
    [hardwareConcurrency |-> 0, deviceMemory |-> 0] }

\* MobileOptimizations.detectDevice
detectDevice(vp, host) ==
  LET hardwareConcurrency ==
        IF host.hardwareConcurrency = 0 THEN 2 ELSE host.hardwareConcurrency
      memory == IF host.deviceMemory = 0 THEN 4 ELSE host.deviceMemory
  IN [ isMobile |-> Less(vp.width, 768),
       isTablet |-> ~Less(vp.width, 768) /\ Less(vp.width, 1024),
       isLowEnd |-> hardwareConcurrency <= 2 \/ memory <= 2 ]

\* MobileOptimizations.generateSettings; textureScale in hundredths
generateSettings(D) ==
  IF D.isMobile
    THEN [ maxLayers |-> IF D.isLowEnd THEN 15 ELSE 30,
           targetFPS |-> IF D.isLowEnd THEN 24 ELSE 30,
           textureScale |-> IF D.isLowEnd THEN 50 ELSE 75,
           enableLowPowerMode |-> D.isLowEnd ]
  ELSE IF D.isTablet
    THEN [ maxLayers |-> IF D.isLowEnd THEN 30 ELSE 50,
           targetFPS |-> IF D.isLowEnd THEN 30 ELSE 45,
           textureScale |-> IF D.isLowEnd THEN 75 ELSE 100,
           enableLowPowerMode |-> D.isLowEnd ]
  ELSE [ maxLayers |-> IF D.isLowEnd THEN 50 ELSE 100,
         targetFPS |-> 60,
         textureScale |-> 100,
         enableLowPowerMode |-> FALSE ]

\* the device LayerRenderer's constructor detects on a host with 8 cores and
\* 8 GB: it passes the 1920 x 1080 viewport
DesktopInfo == detectDevice(InitialViewport, [hardwareConcurrency |-> 8, deviceMemory |-> 8])

\* MobileOptimizations.generateSettings for the 1920 x 1080 viewport of the
\* constructor; textureScale in hundredths
DesktopSettings ==
  [enableLowPowerMode |-> FALSE, maxLayers |-> 100, targetFPS |-> 60, textureScale |-> 100]

\* MobileOptimizations.enableLowPowerMode
lowPowerSettings(S) ==
  [S EXCEPT !.enableLowPowerMode = TRUE,
            !.maxLayers = Min(@, 15),
            !.targetFPS = Min(@, 30),
            !.textureScale = Min(@, 50)]

\* const maxPossibleLayers of updateSettingsForPerformance
maxPossibleLayers(D) == IF D.isMobile THEN 50 ELSE IF D.isTablet THEN 75 ELSE 100

\* MobileOptimizations.updateSettingsForPerformance on device D: the settings
\* afterwards and the returned flag
updateSettingsForPerformance_noFloor(D, S, fps, memoryUsagePercent) ==
  LET poor == fps * 10 < S.targetFPS * 8
      good == ~poor /\ fps * 10 > S.targetFPS * 12
      afterFps ==
        IF poor
          THEN [S EXCEPT !.maxLayers = IF @ > 10 THEN Max(10, @ - 10) ELSE @,
                         !.textureScale = IF @ > 25 THEN Max(25, @ - 25) ELSE @,
                         !.enableLowPowerMode = TRUE]
        ELSE IF good
          THEN [S EXCEPT !.maxLayers = IF @ < maxPossibleLayers(D)
                                         THEN Min(maxPossibleLayers(D), @ + 5) ELSE @,
                         !.textureScale = IF @ < 100 /\ ~D.isLowEnd
                                            THEN Min(100, @ + 25) ELSE @]
        ELSE S
      afterMemory ==
        IF memoryUsagePercent > 80
          THEN [afterFps EXCEPT !.enableLowPowerMode = TRUE,
                                !.maxLayers = @ - 5]
          ELSE afterFps
  IN [ settings |-> afterMemory,
       updated |-> \/ afterFps # S
                   \/ memoryUsagePercent > 80 /\ afterFps.maxLayers > 5 ]

updateSettingsForPerformance(D, S, fps, memoryUsagePercent) ==
  LET poor == fps * 10 < S.targetFPS * 8
      good == ~poor /\ fps * 10 > S.targetFPS * 12
      afterFps ==
        IF poor
          THEN [S EXCEPT !.maxLayers = IF @ > 10 THEN Max(10, @ - 10) ELSE @,
                         !.textureScale = IF @ > 25 THEN Max(25, @ - 25) ELSE @,
                         !.enableLowPowerMode = TRUE]
        ELSE IF good
          THEN [S EXCEPT !.maxLayers = IF @ < maxPossibleLayers(D)
                                         THEN Min(maxPossibleLayers(D), @ + 5) ELSE @,
                         !.textureScale = IF @ < 100 /\ ~D.isLowEnd
                                            THEN Min(100, @ + 25) ELSE @]
        ELSE S
      afterMemory ==
        IF memoryUsagePercent > 80
          THEN [afterFps EXCEPT !.enableLowPowerMode = TRUE,
                                !.maxLayers = IF @ > 5 THEN Max(5, @ - 5) ELSE @]
          ELSE afterFps
  IN [ settings |-> afterMemory,
       updated |-> \/ afterFps # S
                   \/ memoryUsagePercent > 80 /\ afterFps.maxLayers > 5 ]

\* the record of an updateSettingsForPerformance call
Adjusted(S, fps, memoryUsagePercent, u) ==
  [ called |-> TRUE, before |-> S, after |-> u.settings, fps |-> fps,
    memory |-> memoryUsagePercent, updated |-> u.updated ]

NoAdjust ==
  [ called |-> FALSE, before |-> DesktopSettings, after |-> DesktopSettings, fps |-> 0,
    memory |-> 0, updated |-> FALSE ]

\* what the PerformanceMonitor passes to its callback once a second, when one
\* of the measurements is out of range
Metrics ==
  { [fps |-> 10, memory |-> 50, renderTime |-> 5],
    [fps |-> 60, memory |-> 90, renderTime |-> 5],
    [fps |-> 60, memory |-> 50, renderTime |-> 20] }

\* PerformanceMonitor.isPerformanceDegraded
isPerformanceDegraded(m) == m.fps < 30 \/ m.memory > 80 \/ m.renderTime > 16

\* the keywords of "Performance degraded: " followed by the reasons
degradedMessage(m) ==
  (IF m.memory > 80 THEN {"memory"} ELSE {}) \cup (IF m.renderTime > 16 THEN {"render"} ELSE {})

\* ErrorRecovery.getDegradationSettings
getDegradationSettings(st) ==
  [ maxLayers |-> Max(5, 50 - st.degradationLevel * 10),
    enableLowPowerMode |-> st.degradationLevel > 0 ]

\* ImagePreloader.getTexture of the image every layer refers to
getTexture == getTextureOf(textureCache, "a")

shouldSkipFrame_never(S, frameCount) == FALSE

shouldSkipFrame(S, frameCount) == S.enableLowPowerMode /\ frameCount % 2 = 1

SelectVisible(layers) == SelectSeq(layers, LAMBDA l : l.isVisible)

\* where a render pass throws: nowhere, in updateZIndexSorting (a PIXI container
\* call), or in the render callback of the host
Faults == {"none", "sorting", "callback"}

\* renderLayers: the renderer and the pool afterwards, and how the call ended
renderLayers_noCatch(R, P, S, fault) ==
  IF ~R.pixiApp \/ R.isDestroyed
    THEN [renderer |-> R, pool |-> P, pass |-> "none"]
  ELSE LET counted == IF S.enableLowPowerMode
                        THEN [R EXCEPT !.frameSkipCounter = @ + 1] ELSE R
       IN IF shouldSkipFrame(S, counted.frameSkipCounter)
            THEN [renderer |-> counted, pool |-> P, pass |-> "skipped"]
          ELSE LET currentLayerIds == {R.currentLayers[i].id : i \in 1..Len(R.currentLayers)}
                   cleaned == cleanupUnusedSprites(P, currentLayerIds)
                   visibleLayers == SelectVisible(R.currentLayers)
                   layersToRender == SubSeq(visibleLayers, 1, Min(Len(visibleLayers), S.maxLayers))
                   drawn == IF getTexture \notin {"absent", EMPTY}
                              THEN processBatch(cleaned, layersToRender, getTexture)
                              ELSE cleaned
               IN IF fault = "sorting"
                    THEN [renderer |-> counted, pool |-> drawn, pass |-> "thrown"]
                  ELSE [ renderer |-> [counted EXCEPT !.container = getActiveSprites(drawn)],
                         pool |-> drawn,
                         pass |-> IF fault = "callback" THEN "thrown" ELSE "rendered" ]

renderLayers(R, P, S, fault) ==
  IF ~R.pixiApp \/ R.isDestroyed
    THEN [renderer |-> R, pool |-> P, pass |-> "none"]
  ELSE LET counted == IF S.enableLowPowerMode
                        THEN [R EXCEPT !.frameSkipCounter = @ + 1] ELSE R
       IN IF shouldSkipFrame(S, counted.frameSkipCounter)
            THEN [renderer |-> counted, pool |-> P, pass |-> "skipped"]
          ELSE LET currentLayerIds == {R.currentLayers[i].id : i \in 1..Len(R.currentLayers)}
                   cleaned == cleanupUnusedSprites(P, currentLayerIds)
                   visibleLayers == SelectVisible(R.currentLayers)
                   layersToRender == SubSeq(visibleLayers, 1, Min(Len(visibleLayers), S.maxLayers))
                   drawn == IF getTexture \notin {"absent", EMPTY}
                              THEN processBatch(cleaned, layersToRender, getTexture)
                              ELSE cleaned
               IN IF fault = "sorting"
                    THEN [renderer |-> counted, pool |-> drawn, pass |-> "caught"]
                  ELSE [ renderer |-> [counted EXCEPT !.container = getActiveSprites(drawn)],
                         pool |-> drawn,
                         pass |-> IF fault = "callback" THEN "caught" ELSE "rendered" ]

\* ---- one task of the event loop as a function of the objects it touches
World ==
  [ state |-> state, handlers |-> handlers, callers |-> callers,
    consecFailed |-> consecFailed, degradeCalls |-> degradeCalls,
    renderer |-> renderer, pool |-> pool, settings |-> settings, lastPass |-> lastPass,
    initCall |-> initCall, thrown |-> thrown, handed |-> handed ]

Becomes(w) ==
  /\ state' = w.state
  /\ handlers' = w.handlers
  /\ callers' = w.callers
  /\ consecFailed' = w.consecFailed
  /\ degradeCalls' = w.degradeCalls
  /\ renderer' = w.renderer
  /\ pool' = w.pool
  /\ settings' = w.settings
  /\ lastPass' = w.lastPass
  /\ initCall' = w.initCall
  /\ thrown' = w.thrown
  /\ handed' = w.handed

FreeHandlers(w) == {p \in HandlerSlots : w.handlers[p].pc = "idle"}

FreeHandler(w) == CHOOSE p \in FreeHandlers(w) : \A q \in FreeHandlers(w) : p <= q

\* errorRecovery.handleError(error, context, retryFunction) up to its first
\* suspension, on behalf of `caller`
callHandleError(w0, p, msg, hasFn, caller) ==
  With(w0, LAMBDA w :
    With(enterHandleError(w.state, msg, hasFn), LAMBDA e :
      [w EXCEPT !.state = e.state,
                !.handlers[p] = e.handler,
                !.callers[p] = caller,
                !.degradeCalls = @ + e.degraded]))

\* handleError after `await executeRecoveryStrategy` for the call in slot p
bookkeeping(w0, p) ==
  With(w0, LAMBDA w :
    [w EXCEPT !.state = settle(@, w.handlers[p].result),
              !.consecFailed = IF w.handlers[p].strategy = "retry"
                                    /\ ~w.handlers[p].result.recovered
                                 THEN @ + 1 ELSE 0,
              !.handlers[p] = IdleHandler,
              !.callers[p] = "none"])

\* the render pass of a task: renderLayers with its catch block, which starts
\* handleRenderError(error) and does not wait for it
pass(w0, fault, msg) ==
  With(w0, LAMBDA w :
    With(renderLayers(w.renderer, w.pool, w.settings, fault), LAMBDA r :
      With([w EXCEPT !.renderer = r.renderer, !.pool = r.pool, !.lastPass = r.pass],
           LAMBDA w1 :
             IF r.pass = "caught"
               THEN callHandleError([w1 EXCEPT !.thrown = @ + 1, !.handed = @ + 1],
                                    FreeHandler(w1), msg, TRUE, "handleRenderError")
             ELSE IF r.pass = "thrown"
               THEN [w1 EXCEPT !.thrown = @ + 1]
             ELSE w1)))

\* applyDegradationSettings: mobileOptimizations.enableLowPowerMode() and
\* updateLayers(currentLayers.slice(0, maxLayers)), whose pass completes
applyDegradationSettings(w0, ds) ==
  With(IF ds.enableLowPowerMode THEN [w0 EXCEPT !.settings = lowPowerSettings(@)] ELSE w0,
       LAMBDA w :
         IF w.renderer.isDestroyed
           THEN w
           ELSE pass([w EXCEPT !.renderer.currentLayers =
                                  SubSeq(@, 1, Min(Len(@), ds.maxLayers))],
                     "none", {}))

\* the code of `caller` after its `await handleError(...)` returned r
afterAwait(w0, caller, r) ==
  With(w0, LAMBDA w :
    CASE caller = "initialize" ->
           [w EXCEPT !.initCall = IF r.recovered THEN "resolved" ELSE "rejected"]
      [] caller = "handleRenderError" ->
           IF ~r.recovered /\ w.state.degradationLevel > 0
             THEN applyDegradationSettings(w, getDegradationSettings(w.state))
             ELSE w
      [] OTHER -> w)

\* the microtasks of a task for the handleError call in slot p, if it has its
\* result already
settleNow(w0, p) ==
  With(w0, LAMBDA w :
    IF w.handlers[p].pc = "settled"
      THEN afterAwait(bookkeeping(w, p), w.callers[p], w.handlers[p].result)
      ELSE w)

\* the slot pass(w, ...) used to get w1, 0 if the pass did not throw
PassSlot(w, w1) == IF w1.handed > w.handed THEN FreeHandler(w) ELSE 0

finishPass(w, w1) == IF PassSlot(w, w1) = 0 THEN w1 ELSE settleNow(w1, PassSlot(w, w1))

MayRender == settings.enableLowPowerMode => renderer.frameSkipCounter < MaxFrameSkipCounter

\* a fault is injected only where the pass gets as far as the fault
MayThrowWithin(limit, w, fault) == fault # "none" => thrown < limit /\ FreeHandlers(w) # {}

MayThrow(w, fault) == MayThrowWithin(MaxThrown, w, fault)

Threw(w, w1, fault) == fault # "none" => w1.thrown > w.thrown

\* ---- actions
\* initialize(): `failed` says whether `new PIXI.Application` throws, msg is
\* the message of what it throws
initialize(failed, msg) ==
  /\ initCall = "none"
  /\ ~renderer.pixiApp
  /\ failed => FreeHandlers(World) # {}
  /\ \E w \in {World} :
        Becomes(IF failed
                  THEN settleNow(callHandleError([w EXCEPT !.initCall = "recovering"],
                                                 FreeHandler(w), msg, TRUE, "initialize"),
                                 FreeHandler(w))
                  ELSE [w EXCEPT !.renderer.pixiApp = TRUE, !.initCall = "resolved"])
  /\ UNCHANGED <<teardown, perfUpdates, lastAdjust>>

RendererInitialize == initialize(FALSE, {})

\* updateLayers(layers) with a pass that throws at `fault`, while fewer than
\* `limit` passes have thrown
updateLayersWithin(limit, layers, fault, msg) ==
  /\ MayRender
  /\ IF renderer.isDestroyed
       THEN /\ fault = "none"
            /\ Becomes([World EXCEPT !.lastPass = "refused"])
       ELSE \E w \in {[World EXCEPT !.renderer.currentLayers = layers]} :
            /\ MayThrowWithin(limit, w, fault)
            /\ \E w1 \in {pass(w, fault, msg)} :
               /\ Threw(w, w1, fault)
               /\ Becomes(finishPass(w, w1))
  /\ UNCHANGED <<teardown, perfUpdates, lastAdjust>>

updateLayersWith(layers, fault, msg) == updateLayersWithin(MaxThrown, layers, fault, msg)

updateLayers(layers) == updateLayersWith(layers, "none", {})

enableLowPowerModeWith(fault, msg) ==
  /\ MayRender
  /\ \E w \in {[World EXCEPT !.settings = lowPowerSettings(@)]} :
     /\ MayThrow(w, fault)
     /\ \E w1 \in {pass(w, fault, msg)} :
        /\ Threw(w, w1, fault)
        /\ Becomes(finishPass(w, w1))
  /\ UNCHANGED <<teardown, perfUpdates, lastAdjust>>

enableLowPowerMode == enableLowPowerModeWith("none", {})

\* the callback of the PerformanceMonitor: settings adjustment, a render pass
\* if they changed, and a handleError call that is not awaited if the
\* performance is degraded
handlePerformanceUpdate(m, fault, msg) ==
  /\ ~renderer.isDestroyed
  /\ perfUpdates < MaxPerformanceUpdates
  /\ MayRender
  /\ \E u \in {updateSettingsForPerformance(deviceInfo, settings, m.fps, m.memory)} :
     \E w \in {[World EXCEPT !.settings = u.settings]} :
     /\ MayThrow(w, fault)
     /\ \E w1 \in {IF u.updated THEN pass(w, fault, msg) ELSE w} :
        /\ Threw(w, w1, fault)
        /\ isPerformanceDegraded(m) => FreeHandlers(w1) # {}
        /\ \E a \in {PassSlot(w, w1)} :
           \E b \in {IF isPerformanceDegraded(m) THEN FreeHandler(w1) ELSE 0} :
           \E w2 \in {IF b # 0
                        THEN callHandleError(w1, b, degradedMessage(m), FALSE,
                                             "handlePerformanceUpdate")
                        ELSE w1} :
           \* microtasks: both calls do their bookkeeping before handleRenderError resumes
           \E aSettled \in {a # 0 /\ w2.handlers[a].pc = "settled"} :
           \E w3 \in {IF aSettled THEN bookkeeping(w2, a) ELSE w2} :
           \E bSettled \in {b # 0 /\ w2.handlers[b].pc = "settled"} :
           \E w4 \in {IF bSettled THEN bookkeeping(w3, b) ELSE w3} :
              Becomes(IF aSettled
                        THEN afterAwait(w4, "handleRenderError", w2.handlers[a].result)
                        ELSE w4)
  /\ perfUpdates' = perfUpdates + 1
  /\ lastAdjust' = Adjusted(settings, m.fps, m.memory,
                            updateSettingsForPerformance(deviceInfo, settings, m.fps, m.memory))
  /\ UNCHANGED teardown

\* the backoff timer of the handleError call in slot p fires: attemptRetry
\* calls the retry function, `failed` says whether new PIXI.Application throws
\* in initializeWithFallback, fault where the pass of the retry closure throws
backoffTimerWithin(limit, p, failed, fault, msg) ==
  /\ handlers[p].pc = "sleep"
  /\ callers[p] \in {"initialize", "handleRenderError"}
  /\ IF callers[p] = "initialize"
       THEN /\ fault = "none"
            /\ \E w1 \in {[World EXCEPT !.renderer.pixiApp = @ \/ ~failed,
                                         !.handlers[p].pc = "settled",
                                         !.handlers[p].delay = 0,
                                         !.handlers[p].result = retryOutcome(state, ~failed)]} :
                  Becomes(settleNow(w1, p))
       ELSE /\ ~failed
            /\ MayRender
            /\ \E w \in {[World EXCEPT !.handlers[p].pc = "retrying"]} :
               /\ MayThrowWithin(limit, w, fault)
               /\ \E w1 \in {pass(w, fault, msg)} :
                  \* attemptRetry resumes before the nested call does its bookkeeping
                  \E w2 \in {[w1 EXCEPT !.handlers[p].pc = "settled",
                                        !.handlers[p].delay = 0,
                                        !.handlers[p].result = retryOutcome(w1.state, TRUE)]} :
                     /\ Threw(w, w1, fault)
                     /\ \E w3 \in {finishPass(w, w2)} : Becomes(settleNow(w3, p))
  /\ UNCHANGED <<teardown, perfUpdates, lastAdjust>>

backoffTimer(p, failed, fault, msg) == backoffTimerWithin(MaxThrown, p, failed, fault, msg)

DestroyCalls == Cardinality({i \in 1..Len(teardown) : teardown[i] = "destroy"})

\* the teardown steps of destroy() in the order of its statements
teardownSteps_anyTime(R) ==
  <<"performanceMonitor", "errorRecovery", "spritePool", "imagePreloader">>
  \o (IF R.pixiApp THEN <<"pixiApp">> ELSE << >>)

teardownSteps(R) ==
  IF R.isDestroyed THEN << >>
  ELSE <<"performanceMonitor", "errorRecovery", "spritePool", "imagePreloader">>
       \o (IF R.pixiApp THEN <<"pixiApp">> ELSE << >>)

\* LayerRenderer.destroy: PerformanceMonitor.destroy, ErrorRecovery.reset,
\* SpritePool.destroy, ImagePreloader.clearCache, pixiApp.destroy(true, true)
RendererDestroy ==
  /\ DestroyCalls < MaxDestroyCalls
  /\ teardown' = teardown \o <<"destroy">> \o teardownSteps(renderer)
  /\ IF teardownSteps(renderer) = << >>
       THEN UNCHANGED <<renderer, state, consecFailed, degradeCalls, pool,
                        textureCache, loadingPromises, loads, disposed>>
       ELSE /\ renderer' = [renderer EXCEPT !.isDestroyed = TRUE, !.pixiApp = FALSE,
                                            !.container = << >>]
            /\ state' = InitialRecoveryState
            /\ consecFailed' = 0
            /\ degradeCalls' = 0
            /\ pool' = SpritePoolDestroy(pool)
            /\ disposed' = disposed \cup destroyTextures(textureCache)
            /\ textureCache' = [id \in ImageIds |-> "absent"]
            /\ loadingPromises' = [id \in ImageIds |-> 0]
            /\ loads' = Collect(loads, loadingPromises', preloads)
  /\ UNCHANGED <<deviceVars, lastAdjust>>
  /\ UNCHANGED <<handlers, held, poolCalls, preloads, errors, watcherVars, settings, lastPass,
                 loaderVars, initCall, callers, thrown, handed, perfUpdates>>

RendererInit ==
  /\ renderer = InitialRenderer
  /\ settings = DesktopSettings
  /\ lastPass = "none"
  /\ initCall = "none"
  /\ callers = [p \in HandlerSlots |-> "none"]
  /\ teardown = << >>
  /\ thrown = 0
  /\ handed = 0
  /\ perfUpdates = 0
  /\ lastAdjust = NoAdjust
  /\ viewport = InitialViewport
  /\ deviceInfo = DesktopInfo

\* the renderer without failures, up to its destruction
RendererNext ==
  \/ ~renderer.isDestroyed /\ RendererInitialize /\ UNCHANGED notCompositor
  \/ \E layers \in Scenes :
        ~renderer.isDestroyed /\ updateLayers(layers) /\ UNCHANGED notCompositor
  \/ ~renderer.isDestroyed /\ enableLowPowerMode /\ UNCHANGED notCompositor
  \/ ~renderer.isDestroyed /\ RendererDestroy

\* what PIXI and the host throw, by the keywords of the message: the message
\* of PIXI without WebGL, one without keywords, one about the configuration
Thrown == { {"webgl", "pixi", "canvas"}, {}, {"config"} }

CompositorScenes ==
  { <<Layer(1, 1, TRUE)>>,
    <<Layer(1, 2, TRUE), Layer(2, 1, TRUE)>> }

\* the renderer with a failing PIXI and a failing host callback
CompositorNext ==
  \/ \E failed \in BOOLEAN, msg \in Thrown :
        /\ ~failed => msg = {}
        /\ initialize(failed, msg)
        /\ UNCHANGED notCompositor
  \/ \E layers \in CompositorScenes, fault \in Faults, msg \in Thrown :
        /\ fault = "none" => msg = {}
        /\ updateLayersWith(layers, fault, msg)
        /\ UNCHANGED notCompositor
  \/ \E fault \in Faults, msg \in Thrown :
        /\ fault = "none" => msg = {}
        /\ enableLowPowerModeWith(fault, msg)
        /\ UNCHANGED notCompositor
  \/ \E m \in Metrics, fault \in Faults, msg \in Thrown :
        /\ fault = "none" => msg = {}
        /\ handlePerformanceUpdate(m, fault, msg)
        /\ UNCHANGED notCompositor
  \/ \E p \in HandlerSlots, failed \in BOOLEAN, fault \in Faults, msg \in Thrown :
        /\ fault = "none" => msg = {}
        /\ backoffTimer(p, failed, fault, msg)
        /\ UNCHANGED notCompositor
  \/ RendererDestroy

\* ---- one updateLayers call whose passes all throw
\* Bound of the model
MaxFailedPasses == 12  \* render passes that throw, the first one included

\* messages of the retry class: one without keywords, one of the network
RetryClass == { {}, {"network"} }

RetryLoopNext ==
  \/ RendererInitialize /\ UNCHANGED notCompositor
  \/ \E layers \in Scenes, fault \in Faults \ {"none"}, msg \in RetryClass :
        /\ thrown = 0
        /\ lastPass = "none"
        /\ updateLayersWithin(MaxFailedPasses, layers, fault, msg)
        /\ UNCHANGED notCompositor
  \/ \E p \in HandlerSlots, fault \in Faults \ {"none"}, msg \in RetryClass :
        /\ backoffTimerWithin(MaxFailedPasses, p, FALSE, fault, msg)
        /\ UNCHANGED notCompositor

\* ---- updateLayers calls whose passes all throw an error of the degrade class
\* Bounds of the model
MaxChainPasses == 4     \* passes followed within the chain that one call starts
MaxDegradeThrown == 16  \* render passes that throw

\* messages of the degrade class: the one of PIXI without WebGL, one of the
\* renderer, one of the memory
DegradeClass == { {"webgl", "pixi", "canvas"}, {"render"}, {"memory"} }

\* A render pass that throws wherever it gets as far as `fault`, and what
\* follows from it in the microtasks of the task: the bookkeeping of
\* handleError, then handleRenderError, whose applyDegradationSettings calls
\* updateLayers and so starts the next pass. lastPass is "unfinished" if the
\* chain is longer than `fuel` passes.
RECURSIVE renderChain(_, _, _, _)
renderChain(w0, fault, msg, fuel) ==
  With(pass(w0, fault, msg), LAMBDA w1 :
    With(PassSlot(w0, w1), LAMBDA p :
      IF p = 0 THEN w1
      ELSE IF w1.handlers[p].pc # "settled" THEN w1
      ELSE With(bookkeeping(w1, p), LAMBDA w2 :
        IF w1.handlers[p].result.recovered \/ w2.state.degradationLevel = 0
          THEN w2
        ELSE With(getDegradationSettings(w2.state), LAMBDA ds :
          With(IF ds.enableLowPowerMode
                 THEN [w2 EXCEPT !.settings = lowPowerSettings(@)] ELSE w2,
               LAMBDA w3 :
                 IF w3.renderer.isDestroyed THEN w3
                 ELSE IF fuel = 0 THEN [w3 EXCEPT !.lastPass = "unfinished"]
                 ELSE renderChain([w3 EXCEPT !.renderer.currentLayers =
                                               SubSeq(@, 1, Min(Len(@), ds.maxLayers))],
                                  fault, msg, fuel - 1))))))

\* updateLayers(layers) while every pass throws
updateLayersFailing(layers, fault, msg) ==
  /\ ~renderer.isDestroyed
  /\ renderer.pixiApp
  /\ thrown < MaxDegradeThrown
  /\ lastPass # "unfinished"
  /\ Becomes(renderChain([World EXCEPT !.renderer.currentLayers = layers],
                         fault, msg, MaxChainPasses))
  /\ UNCHANGED <<teardown, perfUpdates, lastAdjust>>

DegradeLoopNext ==
  \/ RendererInitialize /\ UNCHANGED notCompositor
  \/ \E layers \in CompositorScenes, fault \in Faults \ {"none"}, msg \in DegradeClass :
        /\ updateLayersFailing(layers, fault, msg)
        /\ UNCHANGED notCompositor

----------------------------------------------------------------------------
(* LayerLoader and LayerValidator *)

\* ---- JavaScript values of the numeric fields of a document
Num(n) == [type |-> "number", nan |-> FALSE, n |-> n]

NaN == [type |-> "number", nan |-> TRUE, n |-> 0]

\* a value that is not a number, such as the string "50"
NotNumber == [type |-> "string", nan |-> FALSE, n |-> 0]

\* v < n, v > n, v <= n on a number v: FALSE whenever v is NaN
NumLt(v, n) == ~v.nan /\ v.n < n

NumGt(v, n) == ~v.nan /\ v.n > n

NumLe(v, n) == ~v.nan /\ v.n <= n

\* ---- documents
ValidUrl == "https://cdn.example/a.png"

RelativeUrl == "a.png"

NotString == "NotString"

Undefined == "undefined"

\* names every object inherits from Object.prototype
ObjectPrototype == {"constructor", "toString"}

\* imageRegistry[key]: an own entry, else an inherited member, else undefined
Lookup(registry, key) ==
  IF key \in DOMAIN registry.entries THEN registry.entries[key]
  ELSE IF key \in ObjectPrototype THEN "function"
  ELSE Undefined

Truthy(v) == v \notin {Undefined, ""}

isValidUrl(url) == url = ValidUrl

BaseLayer(id, z) ==
  [ id |-> id,
    imageRef |-> [isObject |-> TRUE, kind |-> "urlId", id |-> "a"],
    position |-> [isObject |-> TRUE, xPct |-> Num(50), yPct |-> Num(50)],
    scale |-> [isObject |-> TRUE, pct |-> Num(100)],
    angleDeg |-> Num(0),
    z |-> Num(z) ]

\* layer "L1" with z = 1, as it should be and with one field off
LayerVariants ==
  LET b == BaseLayer("L1", 1)
  IN { b,
       [b EXCEPT !.id = ""],
       [b EXCEPT !.imageRef.isObject = FALSE],
       [b EXCEPT !.imageRef.kind = "file"],
       [b EXCEPT !.imageRef.id = ""],
       [b EXCEPT !.imageRef.id = "missing"],
       [b EXCEPT !.imageRef.id = "constructor"],
       [b EXCEPT !.position.isObject = FALSE],
       [b EXCEPT !.position.xPct = Num(0)],
       [b EXCEPT !.position.xPct = Num(100)],
       [b EXCEPT !.position.xPct = Num(150)],
       [b EXCEPT !.position.xPct = Num(-1)],
       [b EXCEPT !.position.xPct = NotNumber],
       [b EXCEPT !.position.xPct = NaN],
       [b EXCEPT !.position.yPct = Num(150)],
       [b EXCEPT !.scale.isObject = FALSE],
       [b EXCEPT !.scale.pct = Num(0)],
       [b EXCEPT !.scale.pct = Num(-1)],
       [b EXCEPT !.scale.pct = NaN],
       [b EXCEPT !.angleDeg = NotNumber],
       [b EXCEPT !.z = NotNumber] }

Registry1 == [isObject |-> TRUE, entries |-> [k \in {"a"} |-> ValidUrl]]

IdsOf(layers) == [i \in 1..Len(layers) |-> layers[i].id]

Doc(layers) ==
  [ isObject |-> TRUE,
    layersID |-> [isArray |-> TRUE, ids |-> IdsOf(layers)],
    imageRegistry |-> Registry1,
    layers |-> [isArray |-> TRUE, items |-> layers] ]

\* the variants that also come together with a layer "L2" with z = 2
PairedVariants ==
  LET b == BaseLayer("L1", 1)
  IN {b, [b EXCEPT !.position.xPct = Num(150)], [b EXCEPT !.scale.pct = NaN]}

\* the values passed to setConfig: documents of one layer, of two layers in
\* either order, and malformed documents
Docs ==
  {Doc(<<v>>) : v \in LayerVariants}
  \cup {Doc(<<BaseLayer("L2", 2), v>>) : v \in PairedVariants}
  \cup {Doc(<<v, BaseLayer("L2", 2)>>) : v \in PairedVariants}
  \cup { Doc(<< >>),
         [Doc(<<BaseLayer("L2", 2), BaseLayer("L1", 1)>>)
            EXCEPT !.imageRegistry.entries = [k \in {"a"} |-> RelativeUrl]],
         [Doc(<< >>) EXCEPT !.isObject = FALSE],
         [Doc(<<BaseLayer("L1", 1)>>) EXCEPT !.layersID.isArray = FALSE],
         [Doc(<<BaseLayer("L1", 1)>>) EXCEPT !.layersID.ids = << >>],
         [Doc(<<BaseLayer("L1", 1)>>) EXCEPT !.layersID.ids = <<"L1", "L9">>],
         [Doc(<<BaseLayer("L1", 1)>>) EXCEPT !.imageRegistry.isObject = FALSE],
         [Doc(<<BaseLayer("L1", 1)>>) EXCEPT !.imageRegistry.entries = [k \in {"a"} |-> NotString]],
         [Doc(<<BaseLayer("L1", 1)>>) EXCEPT !.imageRegistry.entries = [k \in {"a"} |-> RelativeUrl]],
         [Doc(<<BaseLayer("L1", 1)>>) EXCEPT !.imageRegistry.entries = [k \in {"a"} |-> ""]],
         [Doc(<<BaseLayer("L1", 1)>>) EXCEPT !.layers.isArray = FALSE] }

\* what response.json() returns in the runs explored: JSON has no NaN
JsonDocs ==
  LET b == BaseLayer("L1", 1)
  IN { Doc(<<b>>),
       Doc(<<BaseLayer("L2", 2), b>>),
       Doc(<<[b EXCEPT !.imageRef.id = "constructor"]>>),
       Doc(<<[b EXCEPT !.position.xPct = Num(150)]>>),
       [Doc(<< >>) EXCEPT !.isObject = FALSE] }

\* ---- LayerValidator
validateLayer(layer, index, imageRegistry) ==
  (IF layer.id = "" THEN {<<index, "id must be a non-empty string">>} ELSE {})
  \cup (IF ~layer.imageRef.isObject
          THEN {<<index, "imageRef must be an object">>}
          ELSE (IF layer.imageRef.kind # "urlId"
                  THEN {<<index, "imageRef.kind must be 'urlId'">>} ELSE {})
               \cup (IF layer.imageRef.id = ""
                       THEN {<<index, "imageRef.id must be a non-empty string">>}
                     ELSE IF imageRegistry.isObject
                             /\ ~Truthy(Lookup(imageRegistry, layer.imageRef.id))
                       THEN {<<index, "imageRef.id not found in imageRegistry">>}
                     ELSE {}))
  \cup (IF ~layer.position.isObject
          THEN {<<index, "position must be an object">>}
          ELSE (IF layer.position.xPct.type # "number"
                   \/ NumLt(layer.position.xPct, 0) \/ NumGt(layer.position.xPct, 100)
                  THEN {<<index, "position.xPct must be a number between 0 and 100">>} ELSE {})
               \cup (IF layer.position.yPct.type # "number"
                        \/ NumLt(layer.position.yPct, 0) \/ NumGt(layer.position.yPct, 100)
                       THEN {<<index, "position.yPct must be a number between 0 and 100">>}
                       ELSE {}))
  \cup (IF ~layer.scale.isObject
          THEN {<<index, "scale must be an object">>}
          ELSE IF layer.scale.pct.type # "number" \/ NumLe(layer.scale.pct, 0)
                 THEN {<<index, "scale.pct must be a positive number">>} ELSE {})
  \cup (IF layer.angleDeg.type # "number" THEN {<<index, "angleDeg must be a number">>} ELSE {})
  \cup (IF layer.z.type # "number" THEN {<<index, "z must be a number">>} ELSE {})

validate(config) ==
  IF ~config.isObject
    THEN [isValid |-> FALSE, errors |-> {<<0, "Config must be a valid object">>}, warnings |-> {}]
  ELSE
    LET registry == config.imageRegistry
        items == config.layers.items
        keys == DOMAIN registry.entries
        problems ==
          (IF ~config.layersID.isArray THEN {<<0, "layersID must be an array">>} ELSE {})
          \cup (IF ~registry.isObject
                  THEN {<<0, "imageRegistry must be an object">>}
                  ELSE {<<0, "imageRegistry entry must be a string">> :
                           k \in {k \in keys : registry.entries[k] = NotString}})
          \cup (IF ~config.layers.isArray
                  THEN {<<0, "layers must be an array">>}
                  ELSE UNION {validateLayer(items[i], i, registry) : i \in 1..Len(items)})
        isValid == problems = {}
        declared == {config.layersID.ids[i] : i \in 1..Len(config.layersID.ids)}
        found == {items[i].id : i \in 1..Len(items)}
        warnings ==
          (IF config.layersID.isArray /\ config.layersID.ids = << >>
             THEN {"layersID array is empty"} ELSE {})
          \cup (IF registry.isObject
                   /\ \E k \in keys : registry.entries[k] # NotString
                                      /\ ~isValidUrl(registry.entries[k])
                  THEN {"imageRegistry entry may not be a valid URL"} ELSE {})
          \cup (IF config.layers.isArray /\ items = << >>
                  THEN {"layers array is empty"} ELSE {})
          \cup (IF isValid /\ declared \ found # {}
                  THEN {"layer declared in layersID but not found"} ELSE {})
          \cup (IF isValid /\ found \ declared # {}
                  THEN {"layer found but not declared in layersID"} ELSE {})
    IN [isValid |-> isValid, errors |-> problems, warnings |-> warnings]

\* ---- PositionCalculator
\* LayerLoader.viewportInfo as constructed
DefaultViewport == [width |-> 1920, height |-> 1080, scale |-> 1]

percentageToPixels(xPct, yPct, viewportInfo) ==
  [ x |-> IF xPct.nan THEN NaN ELSE Num((xPct.n * viewportInfo.width) \div 100),
    y |-> IF yPct.nan THEN NaN ELSE Num((yPct.n * viewportInfo.height) \div 100) ]

\* in hundredths: (scalePct / 100) * viewportInfo.scale
percentageToScale(scalePct, viewportInfo) ==
  IF scalePct.nan THEN NaN ELSE Num(scalePct.n * viewportInfo.scale)

\* the four bounds are compared doubled, so that spriteWidth / 2 stays whole;
\* a comparison with NaN on either side is FALSE
isLayerVisible(x, y, scale, textureWidth, textureHeight, viewportInfo, padding) ==
  LET spriteWidth == (textureWidth * scale.n) \div 100
      spriteHeight == (textureHeight * scale.n) \div 100
      left2 == 2 * x.n - spriteWidth - 2 * padding
      right2 == 2 * x.n + spriteWidth + 2 * padding
      top2 == 2 * y.n - spriteHeight - 2 * padding
      bottom2 == 2 * y.n + spriteHeight + 2 * padding
      horizontal == ~x.nan /\ ~scale.nan
      vertical == ~y.nan /\ ~scale.nan
  IN ~ \/ (horizontal /\ right2 < 0)
       \/ (horizontal /\ left2 > 2 * viewportInfo.width)
       \/ (vertical /\ bottom2 < 0)
       \/ (vertical /\ top2 > 2 * viewportInfo.height)

\* PositionCalculator.getMobileSettings(viewportInfo).cullPadding
cullPadding(viewportInfo) ==
  IF viewportInfo.width < 768 THEN 50 ELSE IF viewportInfo.width < 1024 THEN 75 ELSE 100

\* ---- LayerLoader
FetchSlots == {1, 2}

NoConfig == [set |-> FALSE, doc |-> [Doc(<< >>) EXCEPT !.isObject = FALSE]]

InitialLoader == [config |-> NoConfig, processedLayers |-> << >>, callbacks |-> TRUE]

NotNotified == [called |-> FALSE, layers |-> << >>]

IdleFetch == [pc |-> "idle", via |-> "none"]

\* Array.prototype.sort((a, b) => a.z - b.z), which is stable
RECURSIVE InsertLayerByZ(_, _)
InsertLayerByZ(sorted, layer) ==
  IF sorted = << >> THEN <<layer>>
  ELSE IF layer.z.n < sorted[Len(sorted)].z.n
    THEN Append(InsertLayerByZ(SubSeq(sorted, 1, Len(sorted) - 1), layer), sorted[Len(sorted)])
  ELSE Append(sorted, layer)

RECURSIVE SortLayersByZ(_)
SortLayersByZ(layers) ==
  IF layers = << >> THEN << >>
  ELSE InsertLayerByZ(SortLayersByZ(SubSeq(layers, 1, Len(layers) - 1)), layers[Len(layers)])

\* processLayer followed by the isVisible that updateLayerVisibility assigns
processLayer(layer, viewportInfo) ==
  LET absolutePosition ==
        percentageToPixels(layer.position.xPct, layer.position.yPct, viewportInfo)
      absoluteScale == percentageToScale(layer.scale.pct, viewportInfo)
  IN [ layer |-> layer,
       absolutePosition |-> absolutePosition,
       absoluteScale |-> absoluteScale,
       isVisible |-> isLayerVisible(absolutePosition.x, absolutePosition.y, absoluteScale,
                                    100, 100, viewportInfo, cullPadding(viewportInfo)) ]

\* processLayers: the loader afterwards, whether the call resolved, the
\* errorCallback invocations it made and what it passed to updateCallback
processLayers(L) ==
  IF ~L.config.set
    THEN [loader |-> L, resolved |-> FALSE, reports |-> 0, notified |-> NotNotified]
  ELSE LET sortedLayers == SortLayersByZ(L.config.doc.layers.items)
           processed == [i \in 1..Len(sortedLayers) |->
                           processLayer(sortedLayers[i], DefaultViewport)]
       IN [ loader |-> [L EXCEPT !.processedLayers = processed],
            resolved |-> TRUE,
            reports |-> 0,
            notified |-> IF L.callbacks
                           THEN [called |-> TRUE, layers |-> processed]
                           ELSE NotNotified ]

Reports(L, n) == IF L.callbacks THEN n ELSE 0

setConfig_storeFirst(L, configData) ==
  LET validation == validate(configData)
      stored == [L EXCEPT !.config = [set |-> TRUE, doc |-> configData]]
  IN IF ~validation.isValid
       THEN [loader |-> stored, resolved |-> FALSE, reports |-> Reports(L, 2),
             notified |-> NotNotified]
     ELSE processLayers(stored)

setConfig(L, configData) ==
  LET validation == validate(configData)
  IN IF ~validation.isValid
       \* reported before the throw and again by the catch block
       THEN [loader |-> L, resolved |-> FALSE, reports |-> Reports(L, 2),
             notified |-> NotNotified]
     ELSE LET p == processLayers([L EXCEPT !.config = [set |-> TRUE, doc |-> configData]])
          IN IF p.resolved THEN p
             ELSE [p EXCEPT !.reports = @ + Reports(L, 1)]

\* the catch block of loadConfig
loadConfigCatch(L, r) ==
  IF r.resolved THEN r ELSE [r EXCEPT !.reports = @ + Reports(L, 1)]

\* the catch block of hotReload
hotReloadCatch(L, r) ==
  IF r.resolved THEN r ELSE [r EXCEPT !.reports = @ + Reports(L, 1), !.resolved = TRUE]

Completed(op, r) ==
  /\ loader' = r.loader
  /\ lastCall' = [op |-> op, resolved |-> r.resolved, reports |-> r.reports,
                  notified |-> r.notified]

FreeFetch(p) ==
  /\ fetches[p].pc = "idle"
  /\ \A q \in FetchSlots : q < p => fetches[q].pc # "idle"

\* ---- actions
LoaderSetConfig(raw) ==
  /\ Completed("setConfig", setConfig(loader, raw))
  /\ UNCHANGED fetches

\* loadConfig up to its fetch
loadConfig(p) ==
  /\ FreeFetch(p)
  /\ fetches' = [fetches EXCEPT ![p] = [pc |-> "fetch", via |-> "loadConfig"]]
  /\ UNCHANGED <<loader, lastCall>>

\* hotReload(configPath) up to the fetch of loadConfig, hotReload() as a whole
hotReload(withPath) ==
  IF withPath
    THEN /\ \E p \in FetchSlots :
               /\ FreeFetch(p)
               /\ fetches' = [fetches EXCEPT ![p] = [pc |-> "fetch", via |-> "hotReload"]]
         /\ UNCHANGED <<loader, lastCall>>
    ELSE /\ Completed("hotReload", hotReloadCatch(loader, processLayers(loader)))
         /\ UNCHANGED fetches

\* the call that was waiting for the fetch completes with r, the result of
\* the body of loadConfig
fetchSettled(p, r) ==
  /\ fetches[p].pc = "fetch"
  /\ IF fetches[p].via = "hotReload"
       THEN Completed("hotReload", hotReloadCatch(loader, loadConfigCatch(loader, r)))
       ELSE Completed("loadConfig", loadConfigCatch(loader, r))
  /\ fetches' = [fetches EXCEPT ![p] = IdleFetch]

\* fetch rejects, the response is not ok, or response.json() fails
fetchFailed(p) ==
  fetchSettled(p, [loader |-> loader, resolved |-> FALSE, reports |-> 0,
                   notified |-> NotNotified])

fetchDone(p, configData) == fetchSettled(p, setConfig(loader, configData))

LoaderDestroy ==
  /\ loader.callbacks
  /\ loader' = [config |-> NoConfig, processedLayers |-> << >>, callbacks |-> FALSE]
  /\ UNCHANGED <<fetches, lastCall>>

LoaderInit ==
  /\ loader = InitialLoader
  /\ fetches = [p \in FetchSlots |-> IdleFetch]
  /\ lastCall = [op |-> "none", resolved |-> TRUE, reports |-> 0, notified |-> NotNotified]

LoaderNext ==
  \/ \E raw \in Docs : LoaderSetConfig(raw) /\ UNCHANGED notLoader
  \/ \E p \in FetchSlots : loadConfig(p) /\ UNCHANGED notLoader
  \/ \E withPath \in BOOLEAN : hotReload(withPath) /\ UNCHANGED notLoader
  \/ \E p \in FetchSlots : fetchFailed(p) /\ UNCHANGED notLoader
  \/ \E p \in FetchSlots, configData \in JsonDocs : fetchDone(p, configData) /\ UNCHANGED notLoader
  \/ LoaderDestroy /\ UNCHANGED notLoader

----------------------------------------------------------------------------
(* The device profile: MobileOptimizations and the viewport of LayerRenderer *)

\* what updateSettingsForPerformance is called with
FpsInputs == {10, 24, 36, 50, 80}

MemoryInputs == {50, 90}

\* new MobileOptimizations(viewportInfo) on a host; LayerRenderer's constructor
\* is the only caller in the repository and passes its initial viewport
MobileOptimizationsNew(vp, host) ==
  /\ deviceInfo' = detectDevice(vp, host)
  /\ settings' = generateSettings(deviceInfo')
  /\ lastAdjust' = NoAdjust
  /\ UNCHANGED <<viewport, notDevice>>

\* a call of MobileOptimizations.updateSettingsForPerformance
adjustSettings(fps, memoryUsagePercent) ==
  /\ \E u \in {updateSettingsForPerformance(deviceInfo, settings, fps, memoryUsagePercent)} :
        /\ settings' = u.settings
        /\ lastAdjust' = Adjusted(settings, fps, memoryUsagePercent, u)
  /\ UNCHANGED <<deviceVars, notDevice>>

\* MobileOptimizations.enableLowPowerMode
forceLowPowerMode ==
  /\ settings' = lowPowerSettings(settings)
  /\ UNCHANGED <<lastAdjust, deviceVars, notDevice>>

\* MobileOptimizations.resetToDefaults
resetToDefaults ==
  /\ settings' = generateSettings(deviceInfo)
  /\ UNCHANGED <<lastAdjust, deviceVars, notDevice>>

\* LayerRenderer.updateViewport; the resize of the surface and the stage
\* transform are not part of the model
updateViewport(width, height) ==
  /\ renderer.pixiApp
  /\ ~renderer.isDestroyed
  /\ viewport' = getViewportInfo(width, height)
  /\ UNCHANGED <<deviceInfo, settings, lastAdjust, notDevice>>

DeviceNext ==
  \/ \E s \in ViewportSizes, host \in Hosts :
        MobileOptimizationsNew(getViewportInfo(s[1], s[2]), host)
  \/ \E fps \in FpsInputs, m \in MemoryInputs : adjustSettings(fps, m)
  \/ forceLowPowerMode
  \/ resetToDefaults
  \/ RendererInitialize /\ UNCHANGED notCompositor
  \/ \E s \in ViewportSizes : updateViewport(s[1], s[2])

----------------------------------------------------------------------------
(* Specifications *)

Init ==
  /\ RecoveryInit
  /\ PoolInit
  /\ CacheInit
  /\ WatcherInit
  /\ RendererInit
  /\ LoaderInit

SpecRecovery == Init /\ [][RecoveryNext]_vars

SpecPool == Init /\ [][PoolNext]_vars

SpecPoolTuning == Init /\ [][PoolTuningNext]_vars

SpecCache == Init /\ [][CacheNext]_vars

\* The event loop runs the pending microtasks and fires every timer that is set;
\* whether a texture ever emits 'loaded' or 'error' is up to the network.
SpecCacheSettles ==
  /\ Init /\ [][CacheSettlesNext]_vars
  /\ WF_vars(\E p \in PreloadSlots : preloadResolve(p) /\ UNCHANGED notCache)
  /\ SF_vars(\E n \in 1..Len(loads) : onTimeout(n) /\ UNCHANGED notCache)

SpecDevice == Init /\ [][DeviceNext]_vars

SpecWatcher == Init /\ [][WatcherNext]_vars

SpecWatcherPolling == Init /\ [][WatcherPollingNext]_vars

SpecRenderer == Init /\ [][RendererNext]_vars

SpecLoader == Init /\ [][LoaderNext]_vars

SpecCompositor == Init /\ [][CompositorNext]_vars

SpecRetryLoop == Init /\ [][RetryLoopNext]_vars

SpecDegradeLoop == Init /\ [][DegradeLoopNext]_vars

----------------------------------------------------------------------------
(* Claims about ErrorRecovery *)

Started(p) == handlers[p].pc = "idle" /\ handlers'[p].pc # "idle"

Finished(p) == handlers[p].pc = "settled" /\ handlers'[p].pc = "idle"

\* C1: once maxRetries retry-strategy handleError() calls in a row have failed,
\* the next retry-strategy call reports unrecovered with "Max retries exceeded"
\* straight from its entry: it neither starts the backoff wait nor invokes the
\* retry function.
C1_MaxRetriesExceeded ==
  [][\A p \in HandlerSlots :
       (consecFailed >= maxRetries /\ Started(p) /\ handlers'[p].strategy = "retry")
         => /\ handlers'[p].pc = "settled"
            /\ handlers'[p].result =
                 [recovered |-> FALSE, action |-> <<"Max retries exceeded", maxRetries>>]]_vars

C1_Witness ==
  \E p \in HandlerSlots :
    /\ consecFailed >= maxRetries
    /\ handlers[p].pc = "settled"
    /\ handlers[p].hasRetryFn
    /\ handlers[p].result.action = <<"Max retries exceeded", maxRetries>>

\* C2: a retry-strategy call entered with retryCount < maxRetries and a retry
\* function waits retryDelay * 2^retryCount, the retry function is invoked only
\* out of that wait, and when the call completes retryCount is 0 after a
\* successful retry and one more than before after a failed one.
C2_RetryBackoff ==
  [][\A p \in HandlerSlots :
       /\ (Started(p) /\ handlers'[p].hasRetryFn /\ state.retryCount < maxRetries)
            => /\ handlers'[p].pc = "sleep"
               /\ handlers'[p].delay = retryDelay * (2 ^ state.retryCount)
       /\ (handlers[p].pc # "retrying" /\ handlers'[p].pc = "retrying")
            => handlers[p].pc = "sleep"
       /\ (Finished(p) /\ handlers[p].result.action[1] = "Retry successful after attempts")
            => handlers[p].result.recovered /\ state'.retryCount = 0
       /\ (Finished(p) /\ handlers[p].result.action[1] = "Retry failed")
            => ~handlers[p].result.recovered /\ state'.retryCount = state.retryCount + 1]_vars

C2_Witness ==
  /\ state.retryCount = 0
  /\ Len(state.recoveryActions) > 0
  /\ state.recoveryActions[Len(state.recoveryActions)] = <<"Retry successful after attempts", 3>>

\* C3: with no reset in between, every degrade-strategy call raises
\* degradationLevel by exactly 1; the k-th call since construction or reset
\* reports the k-th ladder entry with recovered = TRUE for k = 1..5, and every
\* later call reports unrecovered with "Maximum degradation reached".
C3_DegradationLadder ==
  [][\A p \in HandlerSlots :
       (Started(p) /\ handlers'[p].strategy = "degrade")
         => LET k == degradeCalls'
                ladder == << "Reduced layer count by 50%", "Disabled antialiasing",
                             "Reduced texture resolution", "Enabled low power mode",
                             "Switched to minimal rendering" >>
            IN /\ k = degradeCalls + 1
               /\ state'.degradationLevel = state.degradationLevel + 1
               /\ handlers'[p].result =
                    IF k <= 5
                      THEN [recovered |-> TRUE, action |-> <<ladder[k]>>]
                      ELSE [recovered |-> FALSE, action |-> <<"Maximum degradation reached">>]]_vars

C3_Witness ==
  \E p \in HandlerSlots :
    /\ degradeCalls = 6
    /\ handlers[p].pc = "settled"
    /\ handlers[p].result.action = <<"Maximum degradation reached">>
    /\ Len(state.recoveryActions) >= 5

\* C14: a handleError() call sets isRecovering to TRUE on entry, and when the
\* call completes, recovered or not, also after the retry function threw,
\* isRecovering is FALSE.
C14_IsRecoveringCleared ==
  [][\A p \in HandlerSlots :
       /\ Started(p) => state'.isRecovering
       /\ Finished(p) => ~state'.isRecovering]_vars

C14_Witness ==
  /\ \A p \in HandlerSlots : handlers[p].pc = "idle"
  /\ ~state.isRecovering
  /\ consecFailed = 2
  /\ state.retryCount = 2

\* C15: every completed handleError() call, recovered or not, appends the
\* action of its result to recoveryActions.
C15_EveryOutcomeLogged ==
  [][\A p \in HandlerSlots :
       Finished(p) =>
         state'.recoveryActions = Append(state.recoveryActions, handlers[p].result.action)]_vars

\* C16: getRecoveryStrategy depends on the message alone and always answers:
\* a message of the memory family gives degrade whatever else it matches, a
\* message of the network family alone gives retry, of the config family alone
\* fallback, of the render family alone degrade, and a message of no family
\* gives retry.
C16_ClassifyByFamily ==
  [][\A p \in HandlerSlots, msg \in ErrorMessages, hasFn \in BOOLEAN :
       handleError(p, msg, hasFn) =>
         LET network == Includes(msg, {"fetch", "network", "load", "timeout"})
             config == Includes(msg, {"config", "validation", "json"})
             render == Includes(msg, {"render", "pixi", "webgl", "canvas"})
             memory == Includes(msg, {"memory", "heap"})
             strategy == handlers'[p].strategy
         IN /\ strategy \in {"retry", "fallback", "degrade"}
            /\ memory => strategy = "degrade"
            /\ (network /\ ~config /\ ~render /\ ~memory) => strategy = "retry"
            /\ (config /\ ~network /\ ~render /\ ~memory) => strategy = "fallback"
            /\ (render /\ ~network /\ ~config /\ ~memory) => strategy = "degrade"
            /\ (~network /\ ~config /\ ~render /\ ~memory) => strategy = "retry"]_vars

\* C4: a getSprite call for a layer id that was acquired before and not released
\* since returns the sprite the first acquire returned, creates no sprite and
\* takes none from availableSprites.
C4_SecondAcquireSameSprite ==
  [][\A id \in PoolLayerIds, t \in Textures :
       (held[id].calls >= 1 /\ PoolGetSprite(id, t)) =>
          /\ getSprite(pool, id, t).sprite = held[id].sprite
          /\ Len(pool'.sprites) = Len(pool.sprites)
          /\ pool'.availableSprites = pool.availableSprites]_vars

C4_Witness ==
  \E id \in PoolLayerIds :
     /\ held[id].calls >= 2
     /\ ActiveIndex(pool, id) # 0
     /\ ActiveSprite(pool, id) = held[id].sprite
     /\ pool.sprites[held[id].sprite].texture = "texB"

\* C5: after every pool call availableSprites holds at most maxPoolSize sprites,
\* and a returnSprite call made while availableSprites is at maxPoolSize
\* destroys the sprite and leaves availableSprites as it was.
C5_IdleWithinCapacity ==
  [][/\ Len(pool'.availableSprites) <= pool'.maxPoolSize
     /\ \A id \in PoolLayerIds \cup BulkLayerIds :
          ( /\ ActiveIndex(pool, id) # 0
            /\ Len(pool.availableSprites) >= pool.maxPoolSize
            /\ pool' = returnSprite(pool, id) ) =>
             /\ pool'.sprites[ActiveSprite(pool, id)].destroyed
             /\ pool'.availableSprites = pool.availableSprites]_vars

C5_Witness ==
  /\ Len(pool.availableSprites) = pool.maxPoolSize
  /\ poolCalls = 2
  /\ held = [id \in PoolLayerIds |-> NotHeld]
  /\ \E s \in 1..Len(pool.sprites) :
       pool.sprites[s].destroyed /\ ~pool.sprites[s].userData.set

\* C6: for every image id at most one load is in flight (its promise still
\* pending) at any time, whatever requests overlap.
C6_OneLoadInFlight ==
  \A id \in ImageIds :
     Cardinality({n \in 1..Len(loads) : loads[n].id = id /\ loads[n].status = "pending"}) <= 1

\* C7: a preloadImages() call waits only for loads whose 10 s timer is still to
\* fire, and when it resolves every id of its registry is in textureCache, every
\* id whose load failed or timed out maps to the fallback texture, and each such
\* failure was passed to the error callback.
C7_PreloadResolves ==
  [][\A p \in PreloadSlots :
       /\ (preloads[p].pc = "waiting" /\ ~Ready(p)) =>
             \E id \in Registry(p) :
                IF Settled(p, id) THEN FALSE
                ELSE loads[preloads[p].asked[id].load].timer
       /\ (Ready(p) /\ preloads'[p].pc = "idle") =>
             \A id \in Registry(p) :
                /\ textureCache'[id] # "absent"
                /\ Failed(p, id) => /\ textureCache'[id] = "fallback"
                                    /\ <<p, id>> \in errors]_vars

C7_Witness ==
  /\ \A p \in PreloadSlots : preloads[p].pc = "idle"
  /\ textureCache["a"] = "fallback"
  /\ textureCache["b"] = "texture"
  /\ Len(loads) = 2

\* C8: a marker observed while no baseline is recorded only records the
\* baseline: no document fetch, no onConfigChange. A poll fetches the document
\* only for a marker strictly greater than the recorded baseline and leaves the
\* baseline as it is; onConfigChange is invoked only when a document fetch
\* completes, and the poll sets the baseline to its marker in that step.
C8_BaselineThenNotify ==
  [][/\ \A p \in PollSlots :
          /\ \A m \in 1..MaxTime :
                (watcher.lastModified = 0 /\ headDone(p, m)) =>
                   /\ polls'[p].pc = "idle"
                   /\ changeCalls' = changeCalls
                   /\ watcher'.lastModified = m
          /\ (polls[p].pc = "head" /\ polls'[p].pc = "doc") =>
                /\ watcher.lastModified > 0
                /\ polls'[p].observed > watcher.lastModified
                /\ polls'[p].baseline = watcher.lastModified
                /\ watcher'.lastModified = watcher.lastModified
                /\ changeCalls' = changeCalls
          /\ (polls[p].pc = "doc" /\ polls'[p].pc = "idle") =>
                /\ polls[p].observed > polls[p].baseline
                /\ polls[p].baseline > 0
                /\ watcher'.lastModified = polls[p].observed
     /\ changeCalls' # changeCalls =>
          \E p \in PollSlots : polls[p].pc \in {"doc", "force"} /\ polls'[p].pc = "idle"]_vars

C8_Witness ==
  /\ changeCalls = 1
  /\ errorCalls = 0
  /\ watcher.lastModified = 2
  /\ watcher.isWatching
  /\ \A p \in PollSlots : polls[p].pc = "idle"

\* C9: an updateLayers(list) call on an initialized renderer that is not
\* destroyed makes list the current snapshot and completes a render pass, after
\* which every visible layer of list has its sprite in the container, in
\* low-power mode too.
C9_UpdateLayersRenders ==
  [][\A layers \in Scenes :
       (renderer.pixiApp /\ ~renderer.isDestroyed /\ updateLayers(layers)) =>
          /\ renderer'.currentLayers = layers
          /\ lastPass' = "rendered"
          /\ \A i \in 1..Len(layers) :
               layers[i].isVisible =>
                  /\ ActiveIndex(pool', layers[i].id) # 0
                  /\ \E k \in 1..Len(renderer'.container) :
                        renderer'.container[k] = ActiveSprite(pool', layers[i].id)]_vars

\* the z of the layer of the current snapshot that sprite s is bound to
LayerZ(s) ==
  LET id == CHOOSE i \in ActiveIds(pool) : ActiveSprite(pool, i) = s
      k == CHOOSE j \in 1..Len(renderer.currentLayers) : renderer.currentLayers[j].id = id
  IN renderer.currentLayers[k].z

\* C10: after a completed render pass the sprites in the container are in
\* ascending order of the z of their layers in the current snapshot.
C10_PaintOrder ==
  lastPass = "rendered" =>
     \A i, j \in 1..Len(renderer.container) :
        i < j => LayerZ(renderer.container[i]) <= LayerZ(renderer.container[j])

\* C25: after a completed render pass every sprite in the container is the
\* sprite of a layer of the current snapshot that is visible, and the container
\* holds at most maxLayers sprites.
C25_ContainerShowsVisible ==
  lastPass = "rendered" =>
     /\ \A k \in 1..Len(renderer.container) :
           \E j \in 1..Len(renderer.currentLayers) :
              /\ renderer.currentLayers[j].isVisible
              /\ ActiveIndex(pool, renderer.currentLayers[j].id) # 0
              /\ ActiveSprite(pool, renderer.currentLayers[j].id) = renderer.container[k]
     /\ Len(renderer.container) <= settings.maxLayers

----------------------------------------------------------------------------
(* Claims about the life cycle and the error handling of LayerRenderer *)

TeardownOrder ==
  <<"performanceMonitor", "errorRecovery", "spritePool", "imagePreloader", "pixiApp">>

\* C11: the teardown steps of destroy() run in the order PerformanceMonitor,
\* ErrorRecovery reset, SpritePool, ImagePreloader cache, PIXI application (the
\* last one if there is an application); a second destroy() call performs no
\* teardown step and changes nothing; and no step taken on a destroyed
\* renderer, an updateLayers call in particular, performs a render pass.
C11_DestroyOnceInOrder ==
  /\ [](teardown # << >> =>
          \E n \in {Len(TeardownOrder) - 1, Len(TeardownOrder)} :
             /\ Len(teardown) >= n + 1
             /\ SubSeq(teardown, 1, n + 1) = <<"destroy">> \o SubSeq(TeardownOrder, 1, n)
             /\ \A i \in (n + 2)..Len(teardown) : teardown[i] = "destroy")
  /\ [][renderer.isDestroyed =>
          /\ pool' = pool
          /\ renderer'.container = renderer.container
          /\ renderer'.frameSkipCounter = renderer.frameSkipCounter
          /\ lastPass' \in {lastPass, "none", "refused"}
          /\ RendererDestroy =>
                /\ teardown' = Append(teardown, "destroy")
                /\ UNCHANGED <<renderer, state, pool, textureCache, settings>>
          /\ \A layers \in CompositorScenes :
                updateLayers(layers) =>
                   /\ lastPass' = "refused"
                   /\ UNCHANGED <<renderer, pool>>]_vars

C11_Witness ==
  /\ teardown = <<"destroy">> \o TeardownOrder \o <<"destroy">>
  /\ lastPass = "refused"
  /\ renderer.isDestroyed

\* C12: an initialize() call whose PIXI application could not be created never
\* completes successfully without an application: it resolves only with
\* pixiApp set.
C12_InitializeEndsWithSurface ==
  [][(initCall # "resolved" /\ initCall' = "resolved") => renderer'.pixiApp]_vars

\* C13: an exception thrown during a render pass does not leave renderLayers:
\* every one is caught and handed to handleError by handleRenderError, a
\* handleError call made for it that waits for its backoff timer has the retry
\* closure, and when the timer fires the closure runs the render pass again.
C13_RenderErrorsHanded ==
  /\ [](/\ handed = thrown
        /\ lastPass # "thrown"
        /\ \A p \in HandlerSlots :
              callers[p] = "handleRenderError" =>
                 handlers[p].pc = "sleep" /\ handlers[p].hasRetryFn)
  /\ [][\A p \in HandlerSlots :
          (/\ callers[p] = "handleRenderError"
           /\ handlers'[p].pc # "sleep"
           /\ handlers'[p] # handlers[p]
           /\ thrown' = thrown) =>
             LET r == renderLayers(renderer, pool, settings, "none")
             IN /\ renderer' = r.renderer
                /\ pool' = r.pool
                /\ lastPass' = r.pass]_vars

C13_Witness ==
  /\ thrown = 2
  /\ handed = 2
  /\ perfUpdates = 1
  /\ lastPass = "caught"
  /\ \E p \in HandlerSlots : callers[p] = "handleRenderError" /\ handlers[p].pc = "sleep"

\* C26: on a destroyed renderer whose recovery state is as reset() left it, a
\* backoff timer that fires or a preload that resumes changes nothing: the
\* recovery state stays reset, the texture cache stays as clearCache() left it
\* and the renderer stays without a surface.
C26_ResumeChangesNothing ==
  [][(/\ renderer.isDestroyed
      /\ state = InitialRecoveryState
      /\ \/ \E p \in HandlerSlots, failed \in BOOLEAN, fault \in Faults, msg \in Thrown :
               backoffTimer(p, failed, fault, msg)
         \/ \E p \in PreloadSlots : preloadResolve(p)) =>
       /\ state' = InitialRecoveryState
       /\ textureCache' = textureCache
       /\ renderer' = renderer]_vars

\* C27: a performance report that is degraded makes handlePerformanceUpdate
\* call handleError without a retry function, and that call completes within
\* the task, with no backoff wait and no retry: it has degraded the
\* performance, or it is counted as unrecovered. handlePerformanceUpdate is
\* the step that counts in perfUpdates and records the report in lastAdjust.
C27_PerformanceOnlyDegrades ==
  [][perfUpdates' # perfUpdates =>
       LET m == CHOOSE r \in Metrics : r.fps = lastAdjust'.fps /\ r.memory = lastAdjust'.memory
       IN /\ isPerformanceDegraded(m)
          /\ \A p \in HandlerSlots : callers'[p] # "handlePerformanceUpdate"
          /\ getRecoveryStrategy(degradedMessage(m)) = "degrade" => degradeCalls' > degradeCalls
          /\ getRecoveryStrategy(degradedMessage(m)) = "retry" => state'.retryCount >= 1]_vars

C27_Witness ==
  /\ perfUpdates = 1
  /\ lastAdjust.called
  /\ lastAdjust.fps < 30
  /\ state.retryCount = 1
  /\ \A p \in HandlerSlots : handlers[p].pc = "idle"

----------------------------------------------------------------------------
(* Claims about the device profile and the viewport *)

\* C23: updateSettingsForPerformance(fps, memoryUsagePercent) returns true
\* exactly when a field of the settings differs between before and after the call.
C23_ReturnsWhetherChanged ==
  lastAdjust.called => (lastAdjust.updated <=> lastAdjust.before # lastAdjust.after)

\* C24: getViewportInfo(1920, 1080) is scale 1, width 1920, height 1080 and
\* getViewportInfo(800, 600), a container narrower than 16:9, is fitted to its
\* width: scale 800/1920, width 800, height 450.
C24_ViewportInfo ==
  [][/\ updateViewport(1920, 1080) =>
          viewport' = [scale |-> <<1, 1>>, width |-> <<1920, 1>>, height |-> <<1080, 1>>]
     /\ updateViewport(800, 600) =>
          viewport' = [scale |-> <<5, 12>>, width |-> <<800, 1>>, height |-> <<450, 1>>]]_vars

C24_Witness ==
  /\ renderer.pixiApp
  /\ viewport.width = <<800, 1>>
  /\ viewport.height = <<450, 1>>

\* C24 as stated: getViewportInfo(800, 600) is fitted to the height, scale
\* 600/1080 and height 600.
C24_FitsToHeight ==
  [][updateViewport(800, 600) =>
       viewport'.scale = Frac(600, 1080) /\ viewport'.height = <<600, 1>>]_vars

\* C28: with memory usage at most 80 per cent, a call with fps below 0.8 *
\* targetFPS lowers maxLayers by 10 and textureScale by 0.25, not below 10 and
\* 0.25, and sets low-power mode; a call with fps above 1.2 * targetFPS raises
\* maxLayers by 5 up to the ceiling of the device class and textureScale by
\* 0.25 up to 1, on every device class and tier.
C28_Stepping ==
  lastAdjust.called /\ lastAdjust.memory <= 80 =>
    LET b == lastAdjust.before
        a == lastAdjust.after
    IN /\ lastAdjust.fps * 10 < b.targetFPS * 8 =>
            /\ a.maxLayers = Min(b.maxLayers, Max(10, b.maxLayers - 10))
            /\ a.textureScale = Min(b.textureScale, Max(25, b.textureScale - 25))
            /\ a.enableLowPowerMode
       /\ lastAdjust.fps * 10 > b.targetFPS * 12 =>
            /\ a.maxLayers = Max(b.maxLayers, Min(maxPossibleLayers(deviceInfo), b.maxLayers + 5))
            /\ a.textureScale = Max(b.textureScale, Min(100, b.textureScale + 25))

\* C29: after updateViewport the device class of the profile is the class of
\* the fitted width - mobile below 768, tablet below 1024, desktop otherwise -
\* and maxLayers is within the ceiling of that class.
C29_ClassFollowsViewport ==
  [][(\E s \in ViewportSizes : updateViewport(s[1], s[2])) =>
       /\ deviceInfo'.isMobile <=> Less(viewport'.width, 768)
       /\ deviceInfo'.isTablet <=> ~Less(viewport'.width, 768) /\ Less(viewport'.width, 1024)
       /\ settings'.maxLayers <=
            maxPossibleLayers(detectDevice(viewport', [hardwareConcurrency |-> 8,
                                                       deviceMemory |-> 8]))]_vars

----------------------------------------------------------------------------
(* Claims about SpritePool.cleanupUnusedSprites *)

\* C30: cleanupUnusedSprites(currentLayerIds) releases every active sprite whose
\* layer id is not in currentLayerIds - it is no longer active, it is hidden
\* and without texture, and it is pooled or destroyed - and leaves every
\* active sprite whose id is in the set active and as it was; afterwards the
\* active ids are a subset of currentLayerIds. A cleanup that finds nothing to
\* release leaves the pool as it is; one that releases is the step that makes
\* the active sprites fewer without a counted call, and held records its argument.
C30_CleanupReleasesUnused ==
  [][\A currentLayerIds \in SUBSET PoolLayerIds :
       (/\ poolCalls' = poolCalls
        /\ Len(pool'.activeSprites) < Len(pool.activeSprites)
        /\ held' = [id \in DOMAIN held |->
                       IF id \in currentLayerIds THEN held[id] ELSE NotHeld]) =>
          /\ \A id \in ActiveIds(pool) :
                LET s == ActiveSprite(pool, id)
                IN IF id \in currentLayerIds
                     THEN /\ ActiveIndex(pool', id) # 0
                          /\ ActiveSprite(pool', id) = s
                          /\ pool'.sprites[s] = pool.sprites[s]
                     ELSE /\ ActiveIndex(pool', id) = 0
                          /\ ~pool'.sprites[s].visible
                          /\ pool'.sprites[s].texture = EMPTY
                          /\ \/ pool'.sprites[s].destroyed
                             \/ \E i \in 1..Len(pool'.availableSprites) :
                                   pool'.availableSprites[i] = s
          /\ ActiveIds(pool') \subseteq currentLayerIds
          /\ ActiveIds(pool') \subseteq ActiveIds(pool)]_vars

C30_Witness ==
  /\ Len(pool.sprites) > BulkLayers
  /\ ActiveIds(pool) = {1}
  /\ held[1] # NotHeld
  /\ held[2] = NotHeld

----------------------------------------------------------------------------
(* Claims about ImagePreloader.clearCache *)

\* C22: clearCache() destroys every texture that is a cache entry, and leaves
\* the texture cache and the map of loading promises empty, so that right
\* afterwards getTexture(id) is the fallback texture for every id.
C22_ClearCacheEmpties ==
  [][clearCache =>
       /\ \A id \in ImageIds :
             /\ textureCache[id] = "texture" => id \in disposed'
             /\ textureCache[id] = "fallback" => "fallback" \in disposed'
             /\ textureCache'[id] = "absent"
             /\ loadingPromises'[id] = 0
             /\ getTextureOf(textureCache', id) = "fallback"
       /\ disposed \subseteq disposed']_vars

C22_Witness ==
  /\ "a" \in disposed
  /\ \A id \in ImageIds : textureCache[id] = "absent" /\ loadingPromises[id] = 0
  /\ \E n \in 1..Len(loads) : loads[n].status = "pending"

----------------------------------------------------------------------------
(* Claims about the destruction of ConfigWatcher *)

\* C21: destroy() clears the interval timer, so that afterwards a poll is
\* started, and a timer set, only by a new startWatching() or
\* updateConfigPath() call of the host; and from destroy() on neither
\* onConfigChange nor onError is invoked, also not by a HEAD request or a
\* document fetch that was in flight.
C21_SilentAfterDestroy ==
  [][/\ WatcherDestroy => ~watcher'.watchInterval /\ ~watcher'.isWatching
     /\ watcher.destroyed =>
          /\ changeCalls' = changeCalls
          /\ errorCalls' = errorCalls
          /\ watcher'.destroyed
          /\ (~watcher.watchInterval
                /\ \/ watcher'.watchInterval
                   \/ \E p \in PollSlots : polls[p].pc = "idle" /\ polls'[p].pc = "head") =>
                startWatching \/ updateConfigPath]_vars

C21_Witness ==
  /\ watcher.destroyed
  /\ watcher.resumed
  /\ ~watcher.watchInterval
  /\ \E p \in PollSlots : polls[p].pc = "doc"

----------------------------------------------------------------------------
(* Claims about the error handling of ConfigWatcher *)

\* C20: while the watcher has its error callback, a poll whose HEAD request
\* fails and a poll whose document fetch or parse fails each end with exactly
\* one onError invocation, no onConfigChange invocation, and leave the
\* interval timer and isWatching as they were, so that later interval ticks
\* start polls.
C20_PollErrorsReported ==
  [][\A p \in PollSlots :
       /\ (watcher.callbacks /\ headFailed(p)) =>
             /\ errorCalls' = errorCalls + 1
             /\ changeCalls' = changeCalls
             /\ polls'[p] = IdlePoll
             /\ watcher' = watcher
       /\ (watcher.callbacks /\ polls[p].pc = "doc" /\ docDone(p, FALSE)) =>
             /\ errorCalls' = errorCalls + 1
             /\ changeCalls' = changeCalls
             /\ polls'[p] = IdlePoll
             /\ watcher'.watchInterval = watcher.watchInterval
             /\ watcher'.isWatching = watcher.isWatching]_vars

C20_Witness ==
  \E p \in PollSlots :
    /\ polls[p].afterErrors = 1
    /\ polls[p].pc = "doc"
    /\ errorCalls = 1
    /\ watcher.watchInterval

----------------------------------------------------------------------------
(* Claims about LayerLoader *)

\* C17: a setConfig(raw) call on a loader that has its callbacks: when the
\* validator reports errors the call rejects, config and processedLayers stay
\* as they were and updateCallback is not invoked; when it reports none
\* (warnings or not) raw becomes the stored config, the call resolves, and
\* updateCallback receives every layer of raw, ascending in z.
C17_SetConfigValidates ==
  [][\A raw \in Docs :
       (loader.callbacks /\ LoaderSetConfig(raw)) =>
          IF validate(raw).errors # {}
            THEN /\ ~lastCall'.resolved
                 /\ lastCall'.reports >= 1
                 /\ loader' = loader
                 /\ ~lastCall'.notified.called
            ELSE LET sent == lastCall'.notified.layers
                 IN /\ lastCall'.resolved
                    /\ loader'.config = [set |-> TRUE, doc |-> raw]
                    /\ lastCall'.notified.called
                    /\ sent = loader'.processedLayers
                    /\ Len(sent) = Len(raw.layers.items)
                    /\ \A i \in 1..Len(raw.layers.items) :
                          \E k \in 1..Len(sent) : sent[k].layer = raw.layers.items[i]
                    /\ \A i, j \in 1..Len(sent) :
                          i < j => sent[i].layer.z.n <= sent[j].layer.z.n]_vars

C17_Witness ==
  /\ lastCall.op = "setConfig"
  /\ lastCall.resolved
  /\ loader.config.set
  /\ validate(loader.config.doc).warnings # {}
  /\ Len(lastCall.notified.layers) = 2
  /\ lastCall.notified.layers[1].layer.id = "L1"
  /\ loader.config.doc.layers.items[1].id = "L2"

\* what the validator demands of a layer: xPct and yPct within [0, 100],
\* scale.pct > 0, imageRef.id an entry of imageRegistry
WithinConstraints(layer, registry) ==
  /\ layer.position.isObject
  /\ layer.position.xPct.type = "number"
  /\ ~layer.position.xPct.nan
  /\ layer.position.xPct.n >= 0 /\ layer.position.xPct.n <= 100
  /\ layer.position.yPct.type = "number"
  /\ ~layer.position.yPct.nan
  /\ layer.position.yPct.n >= 0 /\ layer.position.yPct.n <= 100
  /\ layer.scale.isObject
  /\ layer.scale.pct.type = "number"
  /\ ~layer.scale.pct.nan
  /\ layer.scale.pct.n > 0
  /\ layer.imageRef.isObject
  /\ registry.isObject
  /\ layer.imageRef.id \in DOMAIN registry.entries

\* C18: every layer of the stored document has xPct and yPct within [0, 100],
\* scale.pct > 0 and an imageRef.id that is an entry of imageRegistry.
C18_StoredDocumentValid ==
  loader.config.set =>
    \A i \in 1..Len(loader.config.doc.layers.items) :
       WithinConstraints(loader.config.doc.layers.items[i], loader.config.doc.imageRegistry)

\* C19: a hotReload call starts a fetch of the document, reports every error
\* through errorCallback and resolves.
C19_HotReloadRefetches ==
  [][/\ \A withPath \in BOOLEAN :
          hotReload(withPath) =>
             \E p \in FetchSlots : fetches[p].pc = "idle" /\ fetches'[p].pc = "fetch"
     /\ (lastCall' # lastCall /\ lastCall'.op = "hotReload") =>
          /\ lastCall'.resolved
          /\ (loader.callbacks /\ ~lastCall'.notified.called) => lastCall'.reports >= 1]_vars

\* C31: from the default cap of 150, maxPoolSize stays between 50 and 200
\* whatever is acquired, released, reconciled, tuned or destroyed; a step that
\* changes the cap either adds 25 while more than 80 % of the cap is active, or
\* takes 25 off while less than 40 % is active and the cap is above 50, and
\* then every handle dropped from the idle list is disposed.
C31_SelfTuning ==
  /\ [](pool.maxPoolSize >= 50 /\ pool.maxPoolSize <= 200)
  /\ [][pool'.maxPoolSize # pool.maxPoolSize =>
          LET active == Len(pool.activeSprites)
              idle(P) == {P.availableSprites[i] : i \in 1..Len(P.availableSprites)}
          IN \/ /\ pool'.maxPoolSize = pool.maxPoolSize + 25
                /\ 10 * active > 8 * pool.maxPoolSize
             \/ /\ pool'.maxPoolSize = pool.maxPoolSize - 25
                /\ 10 * active < 4 * pool.maxPoolSize
                /\ pool.maxPoolSize > 50
                /\ \A n \in idle(pool) \ idle(pool') : pool'.sprites[n].destroyed]_vars

\* the cap has grown to its ceiling under a scene that still uses more than 80 % of it
C31_Witness ==
  /\ pool.maxPoolSize = 200
  /\ 10 * Len(pool.activeSprites) > 8 * pool.maxPoolSize

\* C37: whatever is acquired, released, reconciled, tuned or destroyed, no
\* handle is active and idle at once, none is active under two layer ids or
\* twice in the idle list, and no disposed handle is in the active map or in
\* the idle list.
C37_HandleExclusivity ==
  LET active == [i \in 1..Len(pool.activeSprites) |-> pool.activeSprites[i].sprite]
      idle == pool.availableSprites
  IN /\ \A i \in DOMAIN active : \A j \in DOMAIN idle : active[i] # idle[j]
     /\ \A i, j \in DOMAIN active : i # j => active[i] # active[j]
     /\ \A i, j \in DOMAIN idle : i # j => idle[i] # idle[j]
     /\ \A i \in DOMAIN active : ~pool.sprites[active[i]].destroyed
     /\ \A j \in DOMAIN idle : ~pool.sprites[idle[j]].destroyed

\* destroy() has disposed a handle that was active (it is still marked
\* visible), the pool has been tuned and holds active and idle handles again
C37_Witness ==
  /\ \E n \in 1..Len(pool.sprites) : pool.sprites[n].destroyed /\ pool.sprites[n].visible
  /\ pool.maxPoolSize # 150
  /\ pool.activeSprites # << >>
  /\ pool.availableSprites # << >>

\* C32: a load that has settled as loaded or failed never settles again, every
\* preloadImages() call in progress eventually resolves, and when it resolves
\* its counter of loaded images, last reported, equals its number of images.
C32_LoadsSettle ==
  /\ \A p \in PreloadSlots : (preloads[p].pc = "waiting") ~> (preloads[p].pc = "idle")
  /\ [][\A n \in 1..Len(loads) :
          loads[n].status \in {"loaded", "failed"}
            => loads'[n].status \in {loads[n].status, "collected"}]_vars
  /\ [][\A p \in PreloadSlots :
          (preloads[p].pc = "waiting" /\ preloads'[p].pc = "idle")
            => preloads[p].loadedImages = Cardinality(Registry(p))]_vars

\* a call for two images is about to resolve after one image has loaded and
\* the other has failed
C32_Witness ==
  \E p \in PreloadSlots :
    /\ Ready(p)
    /\ Registry(p) = {"a", "b"}
    /\ preloads[p].loadedImages = 2
    /\ Failed(p, "a")
    /\ preloads[p].asked["b"].src = "load"
    /\ ~Failed(p, "b")

\* C33: when every render pass that one updateLayers call causes throws an
\* error of the retry class, with low-power mode off, at most maxRetries
\* re-runs of the pass follow the first one, and after the last of them no
\* call of the recovery controller waits for a backoff timer.
C33_BoundedRetries ==
  /\ thrown <= maxRetries + 1
  /\ thrown = maxRetries + 1 => \A p \in HandlerSlots : handlers[p].pc # "sleep"

\* C34: a handleError call that took the fallback or the degrade strategy, or
\* the retry strategy without a retry function, leaves retryCount as it was
\* when it does its bookkeeping.
C34_OnlyFailedRetriesCount ==
  [][\A p \in HandlerSlots :
       (Finished(p) /\ ~handlers[p].hasRetryFn) => state'.retryCount = state.retryCount]_vars

\* C35: while a handleError call is in progress, waiting for its backoff timer
\* or for its retry function, isRecovering stays TRUE when another call
\* completes.
C35_RecoveringWhileInProgress ==
  [][\A p, q \in HandlerSlots :
       (/\ Finished(q)
        /\ handlers[p].pc \in {"sleep", "retrying"}
        /\ handlers'[p] = handlers[p]) => state'.isRecovering]_vars

\* C36: polling invokes the change callback at most once for each increase of
\* the change marker, however the polls overlap. The marker starts at 1 and a
\* write raises it by 1 at least, so it has increased fileModified - 1 times
\* at most.
C36_OncePerChange == changeCalls <= fileModified - 1

\* C38: clearCache never disposes the fallback texture that every failed image
\* and every missing image shares, also after images have failed or timed out.
C38_FallbackKept == "fallback" \notin disposed

\* C39: when every render pass throws an error of the degrade class, the chain
\* of render pass, recovery, applyDegradationSettings, updateLayers and render
\* pass that one updateLayers call starts comes to an end: it is never longer
\* than the passes the model follows, at most two passes throw in it, and it
\* leaves no handleError call in progress.
C39_DegradeChainEnds ==
  /\ [](lastPass # "unfinished" /\ \A p \in HandlerSlots : handlers[p].pc = "idle")
  /\ [][thrown' <= thrown + 2]_vars

\* beyond the last degradation level a chain has gone through
\* applyDegradationSettings twice and has ended with a skipped pass
C39_Witness ==
  /\ state.degradationLevel >= 7
  /\ settings.enableLowPowerMode
  /\ lastPass = "skipped"
  /\ renderer.frameSkipCounter >= 3

\* C40: maxLayers stays between 5 and the ceiling of the device class (50 on a
\* mobile, 75 on a tablet, 100 on a desktop) and textureScale between 0.25 and
\* 1, and neither updateSettingsForPerformance nor enableLowPowerMode switches
\* low-power mode off.
C40_SettingsBounds ==
  /\ [](/\ settings.maxLayers >= 5
        /\ settings.maxLayers <= maxPossibleLayers(deviceInfo)
        /\ settings.textureScale >= 25
        /\ settings.textureScale <= 100)
  /\ [][(/\ settings.enableLowPowerMode
         /\ \/ \E fps \in FpsInputs, m \in MemoryInputs : adjustSettings(fps, m)
            \/ forceLowPowerMode) => settings'.enableLowPowerMode]_vars

\* performance adjustments have taken a profile to the floor of both settings
C40_Witness ==
  /\ lastAdjust.called
  /\ lastAdjust.before.maxLayers > 5
  /\ settings.maxLayers = 5
  /\ settings.textureScale = 25
  /\ settings.enableLowPowerMode

=============================================================================
